---- MODULE Spec2Model ----
(***************************************************************************)
(* Page Agent extension: the task coordinator (background service worker), *)
(* the execution context (content script) and the agent loop (PageAgent).  *)
(*                                                                         *)
(* Three specifications share the state and the handler definitions:       *)
(*   SpecCoord  the coordinator's handlers driven by arbitrary messages    *)
(*              and tab events (any sender, any payload of the message     *)
(*              type); FairCoord adds that pending timers fire;            *)
(*   SpecCtx    one execution context with its agent loops, driven by      *)
(*              arbitrary EXECUTE_TASK and STOP_TASK commands;             *)
(*   Spec       the whole system for one tab: control surface, execution   *)
(*              context with its agent loops, navigation, the message      *)
(*              channels and the coordinator.                              *)
(***************************************************************************)
EXTENDS Integers, Sequences, FiniteSets, TLC

(***************************************************************************)
(* Bounds of the model.                                                    *)
(***************************************************************************)
MaxTasks == 2       \* fresh task records the coordinator may create
MaxTimers == 1      \* pending grace-delay timers per tab
MaxHistLen == 2     \* length of the histories carried by SpecCoord messages

MAX_STEPS == 1      \* the loop's step limit (config/constants), scaled down
MaxNav == 1         \* navigations of the modelled tab
MaxInv == 2         \* executeTask invocations started in the context of SpecCtx
MaxInvSys == 1      \* executeTask invocations started in each context of Spec

Tabs == {1, 2}
Instr == {"A", "B"}

\* the tab whose execution context Spec models
TabC == CHOOSE t \in Tabs : \A u \in Tabs : t <= u

(***************************************************************************)
(* Data model.                                                             *)
(***************************************************************************)
\* The members of the TaskStatus enum (lib/messages) are written as the
\* lower-case literals of their names; "executing" and "navigating" are the
\* literals the content script sends with its heartbeats.

\* a terminal list that lacks the stopping status
terminalStatusesNoStopping == {"completed", "failed", "idle"}

\* onUpdated's terminalStatuses
terminalStatuses == {"completed", "failed", "stopping", "idle"}

\* one loop iteration's record; id makes every executed step distinguishable
MkStep(id, name) == [id |-> id, name |-> name]

ActionNames == {"click", "done"}

\* the decisions of the model: an action, and for done the success flag of its
\* arguments: a done that reports the task as accomplished (the text of done
\* is the same in all of them)
Decisions ==
    {d \in [name : ActionNames, success : BOOLEAN] : d.name = "done" <=> d.success}

\* the history a resume message carries in SpecCtx
ResumeHistory == [i \in 1..MaxHistLen |-> MkStep(-i, "click")]

\* the histories that SpecCoord's messages carry: one history at every
\* moment of its growth
PoolHistories == {SubSeq(ResumeHistory, 1, n) : n \in 0..MaxHistLen}

IsPrefix(s, t) == Len(s) <= Len(t) /\ \A i \in 1..Len(s) : s[i] = t[i]

Has(rec, field) == field \in DOMAIN rec

VARIABLES
    activeTasks,    \* chrome.storage.local 'activeTasks': tab -> TaskState
    timers,         \* pending setTimeout(removeTask, 1000) callbacks per tab
    uuidCtr,        \* source of crypto.randomUUID() / Date.now()
    last            \* the coordinator event handled in the latest step, and what it sent

VARIABLES
    ctx,            \* the tab's execution context: "alive", "unloading", "none"
    gen,            \* number of the current execution context (page load)
    isExecuting,    \* content script: let isExecuting
    pageAgent,      \* content script: let pageAgent (0 is null, else index in invs)
    invs,           \* executeTask invocations of this context, with their agent
    c2b,            \* runtime messages in flight to the coordinator, per context
    b2c,            \* messages and answers in flight to the live context
    navPending,     \* tab 'complete' events not yet seen by onUpdated
    predHist,       \* history of the predecessor context's agent when it was destroyed
    predTask        \* instruction of the predecessor context's agent

VARIABLES
    probe           \* a pure function under examination: its argument and its results

coordVars == <<activeTasks, timers, uuidCtr, last>>

contentVars == <<ctx, gen, isExecuting, pageAgent, invs, c2b, b2c, navPending,
                 predHist, predTask>>

vars == <<activeTasks, timers, uuidCtr, last, ctx, gen, isExecuting, pageAgent, invs,
          c2b, b2c, navPending, predHist, predTask, probe>>

(***************************************************************************)
(* storage helper                                                          *)
(***************************************************************************)
setTask(tab, state) ==
    [t \in (DOMAIN activeTasks) \cup {tab} |-> IF t = tab THEN state ELSE activeTasks[t]]

removeTask(tab) ==
    [t \in (DOMAIN activeTasks) \ {tab} |-> activeTasks[t]]

(***************************************************************************)
(* Coordinator handlers.  Each one is the whole handler: the storage read, *)
(* the decision and the storage write.                                     *)
(***************************************************************************)
ExecuteTaskMsg(task, history) ==
    [type |-> "EXECUTE_TASK", task |-> task, initialHistory |-> history]

StopTaskMsg == [type |-> "STOP_TASK"]

\* what the latest step of the coordinator was: the event handled, its tab,
\* whether the tab had a record when the handler began, the messages it sent
Event(op, tab, sent) ==
    [op |-> op, tab |-> tab, had |-> tab \in DOMAIN activeTasks, sent |-> sent]

NoEvent == [op |-> "", tab |-> 0, had |-> FALSE, sent |-> <<>>]

\* a resume dispatch that forgets the stored history
ResumeMessageFresh(state) == ExecuteTaskMsg(state.task, <<>>)

\* the resume dispatch of onUpdated
ResumeMessage(state) == ExecuteTaskMsg(state.task, state.history)

\* chrome.tabs.onUpdated listener, changeInfo.status === 'complete'
OnUpdated(tab) ==
    /\ UNCHANGED <<timers, uuidCtr>>
    /\ IF tab \in DOMAIN activeTasks /\ activeTasks[tab].status \notin terminalStatuses
       THEN /\ last' = Event("onUpdated", tab,
                            <<[to |-> tab, msg |-> ResumeMessage(activeTasks[tab])]>>)
            /\ UNCHANGED activeTasks
       ELSE IF tab \in DOMAIN activeTasks
       THEN /\ activeTasks' = removeTask(tab)
            /\ last' = Event("onUpdated", tab, <<>>)
       ELSE /\ UNCHANGED activeTasks
            /\ last' = Event("onUpdated", tab, <<>>)

\* a TASK_STARTED handler that re-initialises the record on every start
TaskStartedAlwaysFresh(tab, payload) ==
    /\ UNCHANGED timers
    /\ last' = Event("TASK_STARTED", tab, <<>>)
    /\ uuidCtr < MaxTasks
    /\ uuidCtr' = uuidCtr + 1
    /\ activeTasks' = setTask(tab, [taskId |-> uuidCtr + 1,
                                    startTime |-> uuidCtr + 1,
                                    task |-> payload.task,
                                    history |-> <<>>,
                                    status |-> "starting"])

\* handleMessage, case TASK_STARTED
TaskStarted(tab, payload) ==
    /\ UNCHANGED timers
    /\ last' = Event("TASK_STARTED", tab, <<>>)
    /\ IF tab \notin DOMAIN activeTasks \/ activeTasks[tab].task # payload.task
       THEN /\ uuidCtr < MaxTasks
            /\ uuidCtr' = uuidCtr + 1
            /\ activeTasks' = setTask(tab, [taskId |-> uuidCtr + 1,
                                            startTime |-> uuidCtr + 1,
                                            task |-> payload.task,
                                            history |-> <<>>,
                                            status |-> "starting"])
       ELSE /\ UNCHANGED uuidCtr
            /\ activeTasks' = setTask(tab, [activeTasks[tab] EXCEPT !.status = "executing"])

\* a heartbeat that overwrites the fields its payload lacks
HeartbeatReplace(state, payload) ==
    [state EXCEPT
        !.history = IF Has(payload, "history") THEN payload.history ELSE <<>>,
        !.status = IF Has(payload, "status") THEN payload.status ELSE "executing"]

\* the heartbeat merge: payload.history || state.history, payload.status || state.status
HeartbeatMerge(state, payload) ==
    [state EXCEPT
        !.history = IF Has(payload, "history") THEN payload.history ELSE state.history,
        !.status = IF Has(payload, "status") THEN payload.status ELSE state.status]

\* a heartbeat handler that stores its payload also for a tab without record
TaskHeartbeatCreates(tab, payload) ==
    /\ UNCHANGED <<timers, uuidCtr>>
    /\ last' = Event("TASK_HEARTBEAT", tab, <<>>)
    /\ activeTasks' = setTask(tab, HeartbeatMerge(
            IF tab \in DOMAIN activeTasks THEN activeTasks[tab]
            ELSE [taskId |-> 0, startTime |-> 0, task |-> "", history |-> <<>>,
                  status |-> "executing"], payload))

\* handleMessage, case TASK_HEARTBEAT
TaskHeartbeat(tab, payload) ==
    /\ UNCHANGED <<timers, uuidCtr>>
    /\ last' = Event("TASK_HEARTBEAT", tab, <<>>)
    /\ IF tab \in DOMAIN activeTasks
       THEN activeTasks' = setTask(tab, HeartbeatMerge(activeTasks[tab], payload))
       ELSE UNCHANGED activeTasks

\* handleMessage, case TASK_PROGRESS
TaskProgress(tab, payload) ==
    /\ UNCHANGED <<timers, uuidCtr>>
    /\ last' = Event("TASK_PROGRESS", tab, <<>>)
    /\ IF tab \in DOMAIN activeTasks /\ Has(payload, "history")
       THEN activeTasks' = setTask(tab, [activeTasks[tab] EXCEPT !.history = payload.history])
       ELSE UNCHANGED activeTasks

\* a terminal handler that marks the record and schedules no cleanup
TaskEndedNoTimer(tab, terminal) ==
    /\ UNCHANGED <<uuidCtr, timers>>
    /\ last' = Event(IF terminal = "completed" THEN "TASK_COMPLETED" ELSE "TASK_ERROR", tab, <<>>)
    /\ IF tab \in DOMAIN activeTasks
       THEN activeTasks' = setTask(tab, [activeTasks[tab] EXCEPT !.status = terminal])
       ELSE UNCHANGED activeTasks

\* handleMessage, cases TASK_COMPLETED and TASK_ERROR: mark terminal, then
\* setTimeout(removeTask, 1000)
TaskEnded(tab, terminal) ==
    /\ UNCHANGED uuidCtr
    /\ last' = Event(IF terminal = "completed" THEN "TASK_COMPLETED" ELSE "TASK_ERROR", tab, <<>>)
    /\ timers[tab] < MaxTimers
    /\ timers' = [timers EXCEPT ![tab] = @ + 1]
    /\ IF tab \in DOMAIN activeTasks
       THEN activeTasks' = setTask(tab, [activeTasks[tab] EXCEPT !.status = terminal])
       ELSE UNCHANGED activeTasks

TaskCompleted(tab) == TaskEnded(tab, "completed")

TaskError(tab) == TaskEnded(tab, "failed")

\* the setTimeout callback of TASK_COMPLETED / TASK_ERROR
GraceTimerFires(tab) ==
    /\ timers[tab] > 0
    /\ timers' = [timers EXCEPT ![tab] = @ - 1]
    /\ activeTasks' = removeTask(tab)
    /\ last' = Event("timer", tab, <<>>)
    /\ UNCHANGED uuidCtr

\* handleMessage, case TASK_STOPPED
TaskStopped(tab) ==
    /\ activeTasks' = removeTask(tab)
    /\ last' = Event("TASK_STOPPED", tab, <<>>)
    /\ UNCHANGED <<timers, uuidCtr>>

\* handleMessage, case STOP_TASK (payload.tabId); reachable says whether the
\* tab's content script receives the forwarded command
StopTask(tab, reachable) ==
    /\ UNCHANGED <<timers, uuidCtr>>
    /\ IF tab \in DOMAIN activeTasks
       THEN IF reachable
            THEN /\ activeTasks' = setTask(tab, [activeTasks[tab] EXCEPT !.status = "stopping"])
                 /\ last' = Event("STOP_TASK", tab, <<[to |-> tab, msg |-> StopTaskMsg]>>)
            ELSE /\ activeTasks' = removeTask(tab)
                 /\ last' = Event("STOP_TASK", tab, <<>>)
       ELSE /\ UNCHANGED activeTasks
            /\ last' = Event("STOP_TASK", tab, <<>>)

\* a GET_STATUS that never reports a task
StatusResponseIdle(tab) == [type |-> "STATUS", active |-> FALSE]

\* the answer of handleMessage, case GET_STATUS
StatusResponse(tab) ==
    IF tab \in DOMAIN activeTasks
    THEN [type |-> "STATUS", active |-> TRUE, task |-> activeTasks[tab]]
    ELSE [type |-> "STATUS", active |-> FALSE]

GetStatus(tab) ==
    /\ last' = Event("GET_STATUS", tab, <<[to |-> tab, msg |-> StatusResponse(tab)]>>)
    /\ UNCHANGED <<activeTasks, timers, uuidCtr>>

\* chrome.tabs.onRemoved listener
OnRemoved(tab) ==
    /\ activeTasks' = removeTask(tab)
    /\ last' = Event("onRemoved", tab, <<>>)
    /\ UNCHANGED <<timers, uuidCtr>>

(***************************************************************************)
(* SpecCoord: the coordinator under arbitrary events.                      *)
(***************************************************************************)
\* the status values SpecCoord's heartbeats carry: the two the content
\* script sends, and one that no handler of the coordinator sets
HeartbeatStatuses == {"executing", "navigating", "idle"}

HeartbeatPayloads ==
    {[history |-> h, status |-> s] : h \in PoolHistories, s \in HeartbeatStatuses}
    \cup {[history |-> h] : h \in PoolHistories}
    \cup {[status |-> s] : s \in HeartbeatStatuses}
    \cup {<<>>}

ProgressPayloads == {[history |-> ResumeHistory], <<>>}

\* no pure function is examined
NoProbe == [fn |-> ""]

\* the extension after installation, with one tab whose content script has loaded
InitSystem ==
    /\ activeTasks = <<>>
    /\ timers = [t \in Tabs |-> 0]
    /\ uuidCtr = 0
    /\ last = NoEvent
    /\ ctx = "alive"
    /\ gen = 0
    /\ isExecuting = FALSE
    /\ pageAgent = 0
    /\ invs = <<>>
    /\ c2b = [g \in 0..MaxNav |-> IF g = 0 THEN <<[type |-> "GET_STATUS"]>> ELSE <<>>]
    /\ b2c = <<>>
    /\ navPending = 0
    /\ predHist = <<>>
    /\ predTask = ""

Init == InitSystem /\ probe = NoProbe

CoordOnUpdated ==
    /\ \E tab \in Tabs : OnUpdated(tab)
    /\ UNCHANGED <<contentVars, probe>>

CoordTaskStarted ==
    /\ \E tab \in Tabs, task \in Instr : TaskStarted(tab, [task |-> task])
    /\ UNCHANGED <<contentVars, probe>>

CoordTaskHeartbeat ==
    /\ \E tab \in Tabs, p \in HeartbeatPayloads : TaskHeartbeat(tab, p)
    /\ UNCHANGED <<contentVars, probe>>

CoordTaskProgress ==
    /\ \E tab \in Tabs, p \in ProgressPayloads : TaskProgress(tab, p)
    /\ UNCHANGED <<contentVars, probe>>

CoordTaskCompleted ==
    /\ \E tab \in Tabs : TaskCompleted(tab)
    /\ UNCHANGED <<contentVars, probe>>

CoordTaskError ==
    /\ \E tab \in Tabs : TaskError(tab)
    /\ UNCHANGED <<contentVars, probe>>

CoordGraceTimerFires ==
    /\ \E tab \in Tabs : GraceTimerFires(tab)
    /\ UNCHANGED <<contentVars, probe>>

CoordTaskStopped ==
    /\ \E tab \in Tabs : TaskStopped(tab)
    /\ UNCHANGED <<contentVars, probe>>

CoordStopTask ==
    /\ \E tab \in Tabs, reachable \in BOOLEAN : StopTask(tab, reachable)
    /\ UNCHANGED <<contentVars, probe>>

CoordGetStatus ==
    /\ \E tab \in Tabs : GetStatus(tab)
    /\ UNCHANGED <<contentVars, probe>>

CoordOnRemoved ==
    /\ \E tab \in Tabs : OnRemoved(tab)
    /\ UNCHANGED <<contentVars, probe>>

NextCoord ==
    \/ CoordOnUpdated
    \/ CoordTaskStarted
    \/ CoordTaskHeartbeat
    \/ CoordTaskProgress
    \/ CoordTaskCompleted
    \/ CoordTaskError
    \/ CoordGraceTimerFires
    \/ CoordTaskStopped
    \/ CoordStopTask
    \/ CoordGetStatus
    \/ CoordOnRemoved

SpecCoord == Init /\ [][NextCoord]_vars

\* the timers of the service worker fire once their delay has elapsed
FairCoord ==
    SpecCoord /\ \A tab \in Tabs : WF_vars(GraceTimerFires(tab) /\ UNCHANGED <<contentVars, probe>>)

(***************************************************************************)
(* Properties of the coordinator (SpecCoord, FairCoord).                   *)
(***************************************************************************)
HasRecord(tab) == tab \in DOMAIN activeTasks

\* C1: when a navigation-complete event arrives for a tab whose stored record
\* is non-terminal and holds a history of N steps, the handler dispatches
\* exactly one EXECUTE_TASK to that tab, carrying the stored instruction and
\* the stored history (all N steps), and leaves the record as it is.
C1_ResumeDispatch ==
    [][\A tab \in Tabs :
        (OnUpdated(tab) /\ HasRecord(tab)
            /\ activeTasks[tab].status \notin {"completed", "failed", "stopping", "idle"})
        => /\ Len(last'.sent) = 1
           /\ last'.sent[1].to = tab
           /\ last'.sent[1].msg.type = "EXECUTE_TASK"
           /\ last'.sent[1].msg.task = activeTasks[tab].task
           /\ Len(last'.sent[1].msg.initialHistory) = Len(activeTasks[tab].history)
           /\ last'.sent[1].msg.initialHistory = activeTasks[tab].history
           /\ activeTasks' = activeTasks]_vars

\* a resume of a task with a history of MaxHistLen steps has been dispatched
C1_Witness ==
    \E tab \in Tabs :
        /\ last.op = "onUpdated" /\ last.tab = tab /\ Len(last.sent) = 1
        /\ HasRecord(tab)
        /\ Len(activeTasks[tab].history) = MaxHistLen
        /\ last.sent[1].msg.initialHistory = activeTasks[tab].history

\* C6: TASK_STARTED for a tab without a record, or with a record of another
\* instruction, stores a fresh record (a task id no stored record has, empty
\* history, status starting); for a tab whose record has the same instruction
\* it keeps task id, start time and history and only sets status executing.
C6_TaskStarted ==
    [][\A tab \in Tabs, task \in Instr :
        TaskStarted(tab, [task |-> task])
        => /\ HasRecord(tab)'
           /\ IF ~HasRecord(tab) \/ activeTasks[tab].task # task
              THEN /\ activeTasks'[tab].task = task
                   /\ activeTasks'[tab].history = <<>>
                   /\ activeTasks'[tab].status = "starting"
                   /\ \A t \in DOMAIN activeTasks :
                         activeTasks[t].taskId # activeTasks'[tab].taskId
              ELSE /\ activeTasks'[tab].taskId = activeTasks[tab].taskId
                   /\ activeTasks'[tab].startTime = activeTasks[tab].startTime
                   /\ activeTasks'[tab].history = activeTasks[tab].history
                   /\ activeTasks'[tab].task = task
                   /\ activeTasks'[tab].status = "executing"]_vars

\* a restart with the same instruction has kept a non-empty history
C6_Witness ==
    \E tab \in Tabs :
        /\ last.op = "TASK_STARTED" /\ last.tab = tab /\ last.had
        /\ HasRecord(tab)
        /\ activeTasks[tab].status = "executing"
        /\ activeTasks[tab].history # <<>>

\* C7: a heartbeat replaces only the fields its payload carries (history,
\* status); task id, instruction and start time stay, and so does each of
\* history and status that the payload lacks.
C7_HeartbeatFrame ==
    [][\A tab \in Tabs :
        (last'.op = "TASK_HEARTBEAT" /\ last'.tab = tab /\ HasRecord(tab)) =>
        \A p \in HeartbeatPayloads :
        TaskHeartbeat(tab, p)
        => /\ HasRecord(tab)'
           /\ activeTasks'[tab].taskId = activeTasks[tab].taskId
           /\ activeTasks'[tab].task = activeTasks[tab].task
           /\ activeTasks'[tab].startTime = activeTasks[tab].startTime
           /\ activeTasks'[tab].history =
                 IF Has(p, "history") THEN p.history ELSE activeTasks[tab].history
           /\ activeTasks'[tab].status =
                 IF Has(p, "status") THEN p.status ELSE activeTasks[tab].status]_vars

\* a heartbeat with a history and no status has reached a starting record
C7_Witness ==
    \E tab \in Tabs :
        /\ last.op = "TASK_HEARTBEAT" /\ last.tab = tab /\ last.had
        /\ HasRecord(tab)
        /\ activeTasks[tab].status = "starting"
        /\ activeTasks[tab].history # <<>>

\* C8: a navigation-complete event for a tab with a record of non-terminal
\* status dispatches a resume and keeps the record; with a record of terminal
\* status (completed, failed, stopping, idle) it deletes the record and
\* dispatches nothing.
C8_NavigationComplete ==
    [][\A tab \in Tabs :
        (OnUpdated(tab) /\ HasRecord(tab))
        => IF activeTasks[tab].status \in {"completed", "failed", "stopping", "idle"}
           THEN ~HasRecord(tab)' /\ last'.sent = <<>>
           ELSE /\ HasRecord(tab)' /\ activeTasks'[tab] = activeTasks[tab]
                /\ Len(last'.sent) = 1
                /\ last'.sent[1].msg.type = "EXECUTE_TASK"]_vars

\* a navigation-complete event has deleted the record it found
C8_Witness ==
    \E tab \in Tabs :
        /\ last.op = "onUpdated" /\ last.tab = tab /\ last.had
        /\ ~HasRecord(tab)
        /\ last.sent = <<>>

\* C9: TASK_COMPLETED and TASK_ERROR set the record's status to completed and
\* failed and leave the record stored, so that it is readable during the
\* grace delay; after either message the tab's record is eventually deleted.
C9_TerminalThenDeleted ==
    /\ [][\A tab \in Tabs :
            /\ (TaskCompleted(tab) /\ HasRecord(tab))
               => /\ HasRecord(tab)'
                  /\ activeTasks'[tab] = [activeTasks[tab] EXCEPT !.status = "completed"]
            /\ (TaskError(tab) /\ HasRecord(tab))
               => /\ HasRecord(tab)'
                  /\ activeTasks'[tab] = [activeTasks[tab] EXCEPT !.status = "failed"]]_vars
    /\ \A tab \in Tabs :
          (last.op \in {"TASK_COMPLETED", "TASK_ERROR"} /\ last.tab = tab)
              ~> ~HasRecord(tab)

\* a completed record is stored while its grace timer is pending
C9_Witness ==
    \E tab \in Tabs :
        /\ last.op = "TASK_COMPLETED" /\ last.tab = tab /\ last.had
        /\ HasRecord(tab)
        /\ activeTasks[tab].status = "completed"
        /\ timers[tab] > 0

\* C11: a heartbeat that arrives late (with a shorter history than the one
\* stored) never leaves the stored history of the task shorter than it was.
C11_StaleHeartbeatKeepsLongest ==
    [][\A tab \in Tabs :
        (last'.op = "TASK_HEARTBEAT" /\ last'.tab = tab /\ HasRecord(tab))
        => Len(activeTasks'[tab].history) >= Len(activeTasks[tab].history)]_vars

(***************************************************************************)
(* PageAgent: the agent object of one executeTask invocation.              *)
(***************************************************************************)
\* executeTask has set isExecuting and awaits getConfig()
NewInvocation(task, hasInit, initialHistory) ==
    [pc |-> "config", task |-> task, hasInit |-> hasInit,
     initialHistory |-> initialHistory, created |-> FALSE,
     history |-> <<>>, step |-> 0, pending |-> "", success |-> FALSE,
     aborted |-> FALSE, reason |-> "", disposed |-> FALSE, running |-> FALSE]

\* PageAgent.constructor: history = [...config.initialHistory] when provided
Construct(a) ==
    [a EXCEPT !.created = TRUE,
              !.history = IF a.hasInit THEN a.initialHistory ELSE <<>>]

\* AbortController.abort(reason): the first reason stays
Abort(a, reason) ==
    IF a.aborted THEN a ELSE [a EXCEPT !.aborted = TRUE, !.reason = reason]

\* PageAgent.execute up to the loop: running, a fresh AbortController,
\* step = this.history.length
ExecuteBegin(a) ==
    [a EXCEPT !.running = TRUE, !.aborted = FALSE, !.reason = "",
              !.step = Len(a.history)]

\* a stop that also empties the history
stopAndClear(a) ==
    IF a.disposed \/ ~a.running THEN a
    ELSE [Abort(a, "USER_STOPPED") EXCEPT !.running = FALSE, !.history = <<>>]

\* PageAgent.stop
stop(a) ==
    IF a.disposed \/ ~a.running THEN a
    ELSE [Abort(a, "USER_STOPPED") EXCEPT !.running = FALSE]

\* a dispose that empties the history whatever the reason
disposeAndClear(a, reason) ==
    IF a.disposed /\ reason # "PAGE_UNLOADING" THEN a
    ELSE [Abort(a, reason) EXCEPT !.disposed = TRUE, !.history = <<>>]

\* PageAgent.dispose
dispose(a, reason) ==
    IF a.disposed /\ reason # "PAGE_UNLOADING" THEN a
    ELSE [Abort(a, reason) EXCEPT
            !.disposed = TRUE,
            !.history = IF reason # "PAGE_UNLOADING" /\ reason # "USER_STOPPED"
                        THEN <<>> ELSE a.history]

\* PageAgent.#onDone
onDone(a) == [Abort(a, "") EXCEPT !.running = FALSE]

\* createPageAgent's onDispose: the unload heartbeat
onDispose(a, reason) ==
    IF reason = "PAGE_UNLOADING" /\ Len(a.history) > 0
    THEN <<[type |-> "TASK_HEARTBEAT", history |-> a.history, status |-> "navigating"]>>
    ELSE <<>>

\* createPageAgent's onAfterStep: the per-step heartbeat (the TASK_PROGRESS
\* message sent with it carries no payload and changes nothing in the coordinator)
onAfterStep(history) ==
    <<[type |-> "TASK_HEARTBEAT", history |-> history, status |-> "executing"]>>

\* executeTask reports the result of execute()
Completed(success, result) ==
    [type |-> "TASK_COMPLETED", success |-> success, result |-> result]

\* PageAgent.execute, the catch block for an abort: silent when the page is
\* unloading, else the result 'Aborted: ...' that executeTask reports
AbortOutcome(a) ==
    IF a.reason = "PAGE_UNLOADING" THEN <<>> ELSE <<Completed(FALSE, "Aborted")>>

\* a limit that lets one more iteration run
ExceedsLimitLate(step) == step > MAX_STEPS + 1

\* the test of the step counter after its increment
ExceedsLimit(step) == step > MAX_STEPS

(***************************************************************************)
(* The execution context (content script).                                 *)
(***************************************************************************)
\* the context's script runs, and the runtime messages it has sent have
\* reached the coordinator: the script's next step is taken after the service
\* worker handled them (handling them later commutes with that step); what a
\* context sends while it unloads may stay in flight after it is gone
Running == ctx \in {"alive", "unloading"} /\ c2b[gen] = <<>>

Send(msgs) == [c2b EXCEPT ![gen] = @ \o msgs]

\* executeTask up to its first await
executeTask(task, hasInit, initialHistory) ==
    IF isExecuting
    THEN UNCHANGED <<isExecuting, pageAgent, invs>>
    ELSE /\ isExecuting' = TRUE
         /\ pageAgent' = 0
         /\ invs' = Append(IF pageAgent # 0
                           THEN [invs EXCEPT ![pageAgent] = dispose(@, "STARTING_NEW_TASK")]
                           ELSE invs,
                           NewInvocation(task, hasInit, initialHistory))

\* stopTask
stopTask ==
    /\ isExecuting' = FALSE
    /\ c2b' = Send(<<[type |-> "TASK_STOPPED"]>>)
    /\ IF pageAgent # 0 /\ ~invs[pageAgent].disposed
       THEN IF invs[pageAgent].running
            THEN /\ invs' = [invs EXCEPT ![pageAgent] = stop(@)]
                 /\ UNCHANGED pageAgent
            ELSE /\ invs' = [invs EXCEPT ![pageAgent] = dispose(@, "USER_STOPPED")]
                 /\ pageAgent' = 0
       ELSE UNCHANGED <<invs, pageAgent>>

\* what is left of an invocation once executeTask has returned: the agent
\* object (its history, disposed or not); its loop state is never read again
Finished(a) ==
    [a EXCEPT !.pc = "done", !.running = FALSE, !.hasInit = FALSE,
              !.initialHistory = <<>>, !.step = 0, !.pending = "", !.success = FALSE,
              !.aborted = TRUE, !.reason = ""]

\* executeTask returns: its finally block, after what it reported
Return(i, a, msgs) ==
    /\ invs' = [invs EXCEPT ![i] = Finished(a)]
    /\ isExecuting' = FALSE
    /\ c2b' = Send(msgs)

\* room for another invocation in the model
CanStart(limit) == isExecuting \/ Len(invs) < limit

\* the control surface sends EXECUTE_TASK to the tab (no initial history)
UserExecute ==
    /\ ctx = "alive"
    /\ Running
    /\ CanStart(MaxInvSys)
    /\ \E task \in Instr : executeTask(task, FALSE, <<>>)
    /\ last' = NoEvent
    /\ UNCHANGED probe
    /\ UNCHANGED <<activeTasks, timers, uuidCtr, ctx, gen, c2b, b2c, navPending,
                   predHist, predTask>>

\* the control surface sends STOP_TASK to the tab
UserStop ==
    /\ ctx = "alive"
    /\ Running
    /\ stopTask
    /\ last' = NoEvent
    /\ UNCHANGED probe
    /\ UNCHANGED <<activeTasks, timers, uuidCtr, ctx, gen, b2c, navPending,
                   predHist, predTask>>

\* the content script handles a message of the coordinator: EXECUTE_TASK,
\* or the answer to checkBackgroundStatus
ContentReceives ==
    /\ Running
    /\ b2c # <<>>
    /\ CanStart(MaxInvSys)
    /\ b2c' = Tail(b2c)
    /\ LET m == Head(b2c)
       IN  IF m.type = "EXECUTE_TASK"
           THEN executeTask(m.task, TRUE, m.initialHistory)
           ELSE IF m.type = "STATUS" /\ m.active
           THEN executeTask(m.task.task, TRUE, m.task.history)
           ELSE UNCHANGED <<isExecuting, pageAgent, invs>>
    /\ last' = NoEvent
    /\ UNCHANGED probe
    /\ UNCHANGED <<activeTasks, timers, uuidCtr, ctx, gen, c2b, navPending,
                   predHist, predTask>>

agentFrame == <<activeTasks, timers, uuidCtr, ctx, gen, b2c, navPending,
                predHist, predTask>>

\* getConfig() rejects: executeTask reports TASK_ERROR
GetConfigFails(i) ==
    /\ Running
    /\ invs[i].pc = "config"
    /\ Return(i, invs[i], <<[type |-> "TASK_ERROR"]>>)
    /\ last' = NoEvent
    /\ UNCHANGED probe
    /\ UNCHANGED <<agentFrame, pageAgent>>

\* getConfig() resolves: the agent is created, TASK_STARTED is sent and
\* execute() runs to its first LLM call
AgentStarts(i) ==
    /\ Running
    /\ invs[i].pc = "config"
    /\ pageAgent' = i
    /\ invs' = [invs EXCEPT ![i] = [ExecuteBegin(Construct(@)) EXCEPT !.pc = "llm"]]
    /\ c2b' = Send(<<[type |-> "TASK_STARTED", task |-> invs[i].task]>>)
    /\ last' = NoEvent
    /\ UNCHANGED probe
    /\ UNCHANGED <<agentFrame, isExecuting>>

\* the LLM call, the normalization or the validation fails; transient is a
\* navigation-induced failure, rethrown as AbortError
LlmFails(i) ==
    /\ Running
    /\ invs[i].pc = "llm"
    /\ \E transient \in BOOLEAN :
          IF transient
          THEN Return(i, invs[i], <<>>)
          ELSE Return(i, onDone(invs[i]), <<Completed(FALSE, "userMessage")>>)
    /\ last' = NoEvent
    /\ UNCHANGED probe
    /\ UNCHANGED <<agentFrame, pageAgent>>

\* the LLM answers with a valid decision; the macro tool checks the abort
\* signal and starts the chosen action's tool
LlmResponds(i) ==
    /\ Running
    /\ invs[i].pc = "llm"
    /\ IF invs[i].aborted
       THEN Return(i, invs[i], AbortOutcome(invs[i]))
       ELSE /\ \E d \in Decisions :
                 invs' = [invs EXCEPT ![i] = [@ EXCEPT !.pc = "tool", !.pending = d.name,
                                                       !.success = d.success]]
            /\ UNCHANGED <<isExecuting, c2b>>
    /\ last' = NoEvent
    /\ UNCHANGED probe
    /\ UNCHANGED <<agentFrame, pageAgent>>

\* a fresh identity for the step of iteration k of invocation i of this context
StepId(i, k) == 100 * gen + 10 * i + k + 1

\* a failing tool whose step is recorded all the same
ToolFailsSpeculative(i) ==
    /\ Running
    /\ invs[i].pc = "tool"
    /\ Return(i, onDone([invs[i] EXCEPT
                            !.history = Append(@, MkStep(StepId(i, invs[i].step),
                                                         invs[i].pending)),
                            !.pending = "", !.success = FALSE]),
              <<Completed(FALSE, "userMessage")>>)
    /\ last' = NoEvent
    /\ UNCHANGED probe
    /\ UNCHANGED <<agentFrame, pageAgent>>

\* the tool throws
ToolFails(i) ==
    /\ Running
    /\ invs[i].pc = "tool"
    /\ Return(i, onDone([invs[i] EXCEPT !.pending = "", !.success = FALSE]),
              <<Completed(FALSE, "userMessage")>>)
    /\ last' = NoEvent
    /\ UNCHANGED probe
    /\ UNCHANGED <<agentFrame, pageAgent>>

\* the tool has finished executing; the macro tool waits 100 ms
ToolFinishes(i) ==
    /\ Running
    /\ invs[i].pc = "tool"
    /\ invs' = [invs EXCEPT ![i] = [@ EXCEPT !.pc = "post"]]
    /\ last' = NoEvent
    /\ UNCHANGED probe
    /\ UNCHANGED <<agentFrame, pageAgent, isExecuting, c2b>>

\* a history that takes the newest step at its front
PushFront(history, id, name) == <<MkStep(id, name)>> \o history

\* this.history.push(...): the history after the iteration of action name
Push(history, id, name) == Append(history, MkStep(id, name))

\* invoke() returns: the step is appended, onAfterStep runs, the loop decides
\* to stop or goes to the next iteration (abort check, next LLM call)
StepAppended(i) ==
    /\ Running
    /\ invs[i].pc = "post"
    /\ LET a == [invs[i] EXCEPT !.history = Push(@, StepId(i, invs[i].step), invs[i].pending),
                                !.step = @ + 1,
                                !.pending = "", !.success = FALSE]
           beat == onAfterStep(a.history)
       IN  IF ExceedsLimit(a.step)
           THEN Return(i, onDone(a),
                       beat \o <<Completed(FALSE, "Step count exceeded maximum limit")>>)
           ELSE IF invs[i].pending = "done"
           THEN Return(i, onDone(a), beat \o <<Completed(invs[i].success, "text of done")>>)
           ELSE IF a.aborted
           THEN Return(i, a, beat \o AbortOutcome(a))
           ELSE /\ invs' = [invs EXCEPT ![i] = [a EXCEPT !.pc = "llm"]]
                /\ c2b' = Send(beat)
                /\ UNCHANGED isExecuting
    /\ last' = NoEvent
    /\ UNCHANGED probe
    /\ UNCHANGED <<agentFrame, pageAgent>>

(***************************************************************************)
(* Navigation of the tab.                                                  *)
(***************************************************************************)
RECURSIVE UnloadAll(_, _)
\* the beforeunload listeners of the agents, in creation order
UnloadAll(as, k) ==
    IF k > Len(as) THEN <<as, <<>>>>
    ELSE IF as[k].created /\ ~as[k].disposed
    THEN LET d == dispose(as[k], "PAGE_UNLOADING")
             rest == UnloadAll([as EXCEPT ![k] = d], k + 1)
         IN  <<rest[1], onDispose(d, "PAGE_UNLOADING") \o rest[2]>>
    ELSE UnloadAll(as, k + 1)

\* beforeunload: the content script's listener disposes pageAgent, then the
\* listeners of the agents still registered run
BeforeUnload ==
    /\ ctx = "alive"
    /\ gen < MaxNav
    /\ ctx' = "unloading"
    /\ LET first == IF pageAgent # 0 /\ ~invs[pageAgent].disposed
                    THEN [invs EXCEPT ![pageAgent] = dispose(@, "PAGE_UNLOADING")]
                    ELSE invs
           beat == IF pageAgent # 0 /\ ~invs[pageAgent].disposed
                   THEN onDispose(first[pageAgent], "PAGE_UNLOADING")
                   ELSE <<>>
           others == UnloadAll(first, 1)
       IN  /\ invs' = others[1]
           /\ c2b' = Send(beat \o others[2])
    /\ last' = NoEvent
    /\ UNCHANGED probe
    /\ UNCHANGED <<activeTasks, timers, uuidCtr, gen, isExecuting, pageAgent, b2c,
                   navPending, predHist, predTask>>

\* the old document and its content script are gone
ContextDestroyed ==
    /\ ctx = "unloading"
    /\ ctx' = "none"
    /\ predHist' = IF pageAgent # 0 THEN invs[pageAgent].history ELSE <<>>
    /\ predTask' = IF pageAgent # 0 THEN invs[pageAgent].task ELSE ""
    /\ invs' = <<>>
    /\ pageAgent' = 0
    /\ isExecuting' = FALSE
    /\ b2c' = <<>>
    /\ navPending' = navPending + 1
    /\ last' = NoEvent
    /\ UNCHANGED probe
    /\ UNCHANGED <<activeTasks, timers, uuidCtr, gen, c2b>>

\* the content script is injected into the new document and calls
\* checkBackgroundStatus
ContextLoaded ==
    /\ ctx = "none"
    /\ ctx' = "alive"
    /\ gen' = gen + 1
    /\ c2b' = [c2b EXCEPT ![gen + 1] = Append(@, [type |-> "GET_STATUS"])]
    /\ last' = NoEvent
    /\ UNCHANGED probe
    /\ UNCHANGED <<activeTasks, timers, uuidCtr, isExecuting, pageAgent, invs, b2c,
                   navPending, predHist, predTask>>

(***************************************************************************)
(* The coordinator in the whole system.                                    *)
(***************************************************************************)
bgFrame == <<ctx, gen, isExecuting, pageAgent, invs,
             predHist, predTask, probe>>

\* chrome.tabs.sendMessage / sendResponse reach the context only while a
\* content script listens in the tab
Deliver(g) ==
    b2c' = IF ctx # "none" /\ g = gen
           THEN b2c \o [k \in 1..Len(last'.sent) |-> last'.sent[k].msg]
           ELSE b2c

\* the service worker handles the next runtime message of context g
BgReceives(g) ==
    /\ c2b[g] # <<>>
    /\ c2b' = [c2b EXCEPT ![g] = Tail(@)]
    /\ LET m == Head(c2b[g])
       IN  CASE m.type = "GET_STATUS" -> GetStatus(TabC)
             [] m.type = "TASK_STARTED" -> TaskStarted(TabC, [task |-> m.task])
             [] m.type = "TASK_HEARTBEAT" ->
                    TaskHeartbeat(TabC, [history |-> m.history, status |-> m.status])
             [] m.type = "TASK_COMPLETED" -> TaskCompleted(TabC)
             [] m.type = "TASK_ERROR" -> TaskError(TabC)
             [] m.type = "TASK_STOPPED" -> TaskStopped(TabC)
    /\ Deliver(g)
    /\ UNCHANGED <<bgFrame, navPending>>

\* the tab reports status 'complete' for the new document
BgOnUpdated ==
    /\ navPending > 0
    /\ navPending' = navPending - 1
    /\ OnUpdated(TabC)
    /\ Deliver(gen)
    /\ UNCHANGED <<bgFrame, c2b>>

BgGraceTimerFires ==
    /\ GraceTimerFires(TabC)
    /\ UNCHANGED <<contentVars, probe>>

Next ==
    \/ UserExecute
    \/ UserStop
    \/ ContentReceives
    \/ \E i \in 1..Len(invs) : GetConfigFails(i)
    \/ \E i \in 1..Len(invs) : AgentStarts(i)
    \/ \E i \in 1..Len(invs) : LlmFails(i)
    \/ \E i \in 1..Len(invs) : LlmResponds(i)
    \/ \E i \in 1..Len(invs) : ToolFails(i)
    \/ \E i \in 1..Len(invs) : ToolFinishes(i)
    \/ \E i \in 1..Len(invs) : StepAppended(i)
    \/ BeforeUnload
    \/ ContextDestroyed
    \/ ContextLoaded
    \/ \E g \in 0..MaxNav : BgReceives(g)
    \/ BgOnUpdated
    \/ BgGraceTimerFires

Spec == Init /\ [][Next]_vars

(***************************************************************************)
(* SpecCtx: one execution context under arbitrary commands; the            *)
(* coordinator only takes the messages the context sends.                  *)
(***************************************************************************)
\* EXECUTE_TASK arrives, from the control surface (no initial history) or as
\* a resume with the initial history the coordinator stored
ExecuteArrives ==
    /\ Running
    /\ CanStart(MaxInv)
    /\ \E task \in {"A"} :
          \/ executeTask(task, FALSE, <<>>)
          \/ \E h \in {ResumeHistory} : executeTask(task, TRUE, h)
    /\ last' = NoEvent
    /\ UNCHANGED probe
    /\ UNCHANGED <<activeTasks, timers, uuidCtr, ctx, gen, c2b, b2c, navPending,
                   predHist, predTask>>

\* the runtime delivers the context's next message to the service worker
CoordinatorTakes ==
    /\ c2b[gen] # <<>>
    /\ c2b' = [c2b EXCEPT ![gen] = Tail(@)]
    /\ last' = NoEvent
    /\ UNCHANGED probe
    /\ UNCHANGED <<activeTasks, timers, uuidCtr, ctx, gen, isExecuting, pageAgent,
                   invs, b2c, navPending, predHist, predTask>>

NextCtx ==
    \/ ExecuteArrives
    \/ UserStop
    \/ \E i \in 1..Len(invs) : GetConfigFails(i)
    \/ \E i \in 1..Len(invs) : AgentStarts(i)
    \/ \E i \in 1..Len(invs) : LlmFails(i)
    \/ \E i \in 1..Len(invs) : LlmResponds(i)
    \/ \E i \in 1..Len(invs) : ToolFails(i)
    \/ \E i \in 1..Len(invs) : ToolFinishes(i)
    \/ \E i \in 1..Len(invs) : StepAppended(i)
    \/ BeforeUnload
    \/ CoordinatorTakes

SpecCtx == Init /\ [][NextCtx]_vars

(***************************************************************************)
(* Properties of the execution context and the agent loop (SpecCtx).       *)
(***************************************************************************)
\* the invocations whose agent loop is active and has not been aborted
LiveLoops == {i \in 1..Len(invs) : invs[i].pc \in {"llm", "tool", "post"} /\ ~invs[i].aborted}

\* C2: EXECUTE_TASK messages never create two concurrent agent loops in one
\* execution context: at any moment at most one invocation of executeTask
\* has an active agent loop.
C2_NoConcurrentLoops == Cardinality(LiveLoops) <= 1

\* C4: in the agent loop the history only grows by one appended Step at a
\* time: until the agent is disposed, the history before a step of the
\* system is a prefix of the history after it and at most one Step shorter;
\* a new agent starts with the initial history it was given (the empty one
\* without), at step = length of that history.
C4_HistoryAppendOnly ==
    [][\A i \in 1..Len(invs) :
        i <= Len(invs') =>
        /\ (invs[i].created /\ invs'[i].disposed = invs[i].disposed)
           => /\ IsPrefix(invs[i].history, invs'[i].history)
              /\ Len(invs'[i].history) <= Len(invs[i].history) + 1
        /\ (~invs[i].created /\ invs'[i].created)
           => /\ invs'[i].history =
                    IF invs[i].hasInit THEN invs[i].initialHistory ELSE <<>>
              /\ invs'[i].step = Len(invs'[i].history)]_vars

\* a resumed loop has appended one Step to its initial history
C4_Witness ==
    \E i \in 1..Len(invs) :
        /\ Len(invs[i].history) = MaxHistLen + 1
        /\ IsPrefix(ResumeHistory, invs[i].history)
        /\ invs[i].history[MaxHistLen + 1].id > 0

\* C5: a Step is appended only after the chosen action's tool has finished:
\* the history of an agent grows only in the step that follows the tool's
\* completion, by the Step of the action that ran; an iteration that ends
\* while the LLM call or the tool is pending (failure, abort) appends nothing.
C5_NoSpeculativeHistory ==
    [][\A i \in 1..Len(invs) :
        (i <= Len(invs') /\ invs[i].created) =>
        /\ Len(invs'[i].history) > Len(invs[i].history)
           => /\ invs[i].pc = "post"
              /\ Len(invs'[i].history) = Len(invs[i].history) + 1
              /\ invs'[i].history[Len(invs'[i].history)].name = invs[i].pending
        /\ (invs[i].pc \in {"llm", "tool"} /\ invs'[i].pc = "done")
           => invs'[i].history = invs[i].history]_vars

\* a loop goes on after the Step of a finished tool was appended
C5_Witness ==
    \E i \in 1..Len(invs) :
        /\ invs[i].pc = "llm"
        /\ ~invs[i].hasInit
        /\ Len(invs[i].history) = 1
        /\ invs[i].history[1].name = "click"

(***************************************************************************)
(* Properties of the whole system (Spec).                                  *)
(***************************************************************************)
\* C3: a loop resumed after a navigation starts from a history that holds
\* every Step the predecessor context's agent had recorded, each exactly once.
C3_ResumeKeepsEveryStep ==
    \A i \in 1..Len(invs) :
        (gen > 0 /\ invs[i].hasInit /\ invs[i].pc = "config" /\ invs[i].task = predTask)
        => \A k \in 1..Len(predHist) :
              Cardinality({j \in 1..Len(invs[i].initialHistory) :
                              invs[i].initialHistory[j] = predHist[k]}) = 1

\* C10: the answer to a status query is active exactly when the tab has a
\* stored record of non-terminal status.
C10_ActiveIffInFlight ==
    last.op = "GET_STATUS"
    => (last.sent[1].msg.active
        <=> (HasRecord(last.tab) /\ activeTasks[last.tab].status \notin terminalStatuses))

(***************************************************************************)
(* JSON texts and JavaScript values, as the response normalizer sees them. *)
(* A text is a sequence of tokens; the characters of a string literal are  *)
(* themselves a text (field s), so that a JSON document carried inside a   *)
(* string stays a text that has to be parsed once more.  The kinds of      *)
(* token are { } : , ws (white space), string, number, literal (null,      *)
(* true, false) and word (letters outside a string literal).               *)
(***************************************************************************)
Tok(k, w, n, s) == [k |-> k, w |-> w, n |-> n, s |-> s]

\* JavaScript values; one record shape for all, told apart by t
JsVal(t, s, n, b, o) == [t |-> t, s |-> s, n |-> n, b |-> b, o |-> o]

Undefined == JsVal("undefined", <<>>, 0, FALSE, <<>>)

Null == JsVal("null", <<>>, 0, FALSE, <<>>)

Str(text) == JsVal("string", text, 0, FALSE, <<>>)

Num(n) == JsVal("number", <<>>, n, FALSE, <<>>)

Obj(o) == JsVal("object", <<>>, 0, FALSE, o)

\* the string of a plain word, as in "ok"
Plain(w) == Str(<<Tok("word", w, 0, <<>>)>>)

\* !v of JavaScript: undefined, null, "", 0 and false are falsy, every object
\* (the empty one included) is truthy
Truthy(v) ==
    CASE v.t = "undefined" -> FALSE
      [] v.t = "null" -> FALSE
      [] v.t = "string" -> v.s # <<>>
      [] v.t = "number" -> v.n # 0
      [] v.t = "boolean" -> v.b
      [] OTHER -> TRUE

\* v.key of JavaScript on a value that is neither null nor undefined
Prop(v, key) ==
    IF v.t = "object" /\ key \in DOMAIN v.o THEN v.o[key] ELSE Undefined

\* String.prototype.trim
RECURSIVE trim(_)
trim(text) ==
    IF text = <<>> THEN text
    ELSE IF Head(text).k = "ws" THEN trim(Tail(text))
    ELSE IF text[Len(text)].k = "ws" THEN trim(SubSeq(text, 1, Len(text) - 1))
    ELSE text

\* JSON.parse: white space between tokens is insignificant, the whole text
\* has to be one value; the keys of an object are plain words
JSONparse(text) ==
    LET Fail == [ok |-> FALSE, v |-> Undefined, rest |-> <<>>]
        Parsed(v, rest) == [ok |-> TRUE, v |-> v, rest |-> rest]
        RECURSIVE ParseValue(_)
        RECURSIVE ParseMembers(_, _)
        ParseValue(toks) ==
            IF toks = <<>> THEN Fail
            ELSE LET h == Head(toks) IN
                 CASE h.k = "string" -> Parsed(Str(h.s), Tail(toks))
                   [] h.k = "number" -> Parsed(Num(h.n), Tail(toks))
                   [] h.k = "literal" /\ h.w = "null" -> Parsed(Null, Tail(toks))
                   [] h.k = "literal" /\ h.w \in {"true", "false"} ->
                        Parsed(JsVal("boolean", <<>>, 0, h.w = "true", <<>>), Tail(toks))
                   [] h.k = "{" ->
                        IF Len(toks) >= 2 /\ toks[2].k = "}"
                        THEN Parsed(Obj(<<>>), Tail(Tail(toks)))
                        ELSE ParseMembers(Tail(toks), <<>>)
                   [] OTHER -> Fail
        ParseMembers(toks, acc) ==
            IF \/ Len(toks) < 3
               \/ toks[1].k # "string" \/ Len(toks[1].s) # 1 \/ toks[1].s[1].k # "word"
               \/ toks[2].k # ":"
            THEN Fail
            ELSE LET key == toks[1].s[1].w
                     r == ParseValue(SubSeq(toks, 3, Len(toks)))
                     o == [x \in DOMAIN acc \cup {key} |->
                            IF x = key THEN r.v ELSE acc[x]]
                 IN  IF ~r.ok \/ r.rest = <<>> THEN Fail
                     ELSE IF Head(r.rest).k = "}" THEN Parsed(Obj(o), Tail(r.rest))
                     ELSE IF Head(r.rest).k = "," THEN ParseMembers(Tail(r.rest), o)
                     ELSE Fail
        r == ParseValue(SelectSeq(text, LAMBDA tok : tok.k # "ws"))
    IN  IF r.ok /\ r.rest = <<>> THEN [ok |-> TRUE, v |-> r.v]
        ELSE [ok |-> FALSE, v |-> Undefined]

\* JSON.stringify; the keys of this model are written in one fixed order
RECURSIVE JSONstringify(_)
JSONstringify(v) ==
    LET KeyOrder ==
            <<"evaluation_previous_goal", "memory", "next_goal", "action",
              "type", "function", "name", "arguments",
              "done", "wait", "click_element_by_index",
              "text", "success", "seconds", "index">>
        P(k) == Tok(k, "", 0, <<>>)
        RECURSIVE Members(_)
        Members(keys) ==
            IF keys = <<>> THEN <<>>
            ELSE <<Tok("string", "", 0, <<Tok("word", Head(keys), 0, <<>>)>>), P(":")>>
                 \o JSONstringify(v.o[Head(keys)])
                 \o (IF Len(keys) > 1 THEN <<P(",")>> ELSE <<>>)
                 \o Members(Tail(keys))
    IN  CASE v.t = "string" -> <<Tok("string", "", 0, v.s)>>
          [] v.t = "number" -> <<Tok("number", "", v.n, <<>>)>>
          [] v.t = "boolean" -> <<Tok("literal", IF v.b THEN "true" ELSE "false", 0, <<>>)>>
          [] v.t = "null" -> <<Tok("literal", "null", 0, <<>>)>>
          [] v.t = "object" ->
                <<P("{")>>
                \o Members(SelectSeq(KeyOrder,
                        LAMBDA k : k \in DOMAIN v.o /\ v.o[k].t # "undefined"))
                \o <<P("}")>>
          [] OTHER -> <<>>

(***************************************************************************)
(* The macro tool schema: optional text fields and the union of the        *)
(* per-tool action schemas, tried in the order the tools are registered.   *)
(***************************************************************************)
\* safeParse of the input schema of one tool
toolInputSchema(name, input) ==
    LET Valid(v) == [ok |-> TRUE, v |-> v]
        Invalid == [ok |-> FALSE, v |-> Undefined]
    IN
    IF input.t # "object" THEN Invalid
    ELSE CASE name = "done" ->
                LET text == Prop(input, "text")
                    success == Prop(input, "success")
                IN  IF text.t = "string" /\ success.t \in {"undefined", "boolean"}
                    THEN Valid(Obj([k \in {"text", "success"} |->
                            IF k = "text" THEN text
                            ELSE IF success.t = "undefined"
                            THEN JsVal("boolean", <<>>, 0, TRUE, <<>>)
                            ELSE success]))
                    ELSE Invalid
           [] name = "wait" ->
                LET seconds == Prop(input, "seconds")
                IN  IF seconds.t = "undefined"
                    THEN Valid(Obj([k \in {"seconds"} |-> Num(1)]))
                    ELSE IF seconds.t = "number" /\ seconds.n >= 1 /\ seconds.n <= 10
                    THEN Valid(Obj([k \in {"seconds"} |-> seconds]))
                    ELSE Invalid
           [] name = "click_element_by_index" ->
                LET index == Prop(input, "index")
                IN  IF index.t = "number" /\ index.n >= 0
                    THEN Valid(Obj([k \in {"index"} |-> index]))
                    ELSE Invalid
           [] OTHER -> Invalid

\* inputSchema.safeParse of the macro tool: the action is the first option
\* of zod.union(actionSchemas) that accepts it, unknown keys are stripped
macroToolSchema(v) ==
    LET Tools == <<"done", "wait", "click_element_by_index">>
        OptionalKeys == {"evaluation_previous_goal", "memory", "next_goal"}
        Invalid == [ok |-> FALSE, v |-> Undefined]
        action == Prop(v, "action")
        fits == {i \in 1..Len(Tools) :
                    /\ action.t = "object"
                    /\ toolInputSchema(Tools[i], Prop(action, Tools[i])).ok}
        first == CHOOSE j \in fits : \A k \in fits : j <= k
        kept == {k \in OptionalKeys : Prop(v, k).t = "string"}
    IN  IF v.t # "object" THEN Invalid
        ELSE IF /\ fits # {}
                /\ \A k \in OptionalKeys : Prop(v, k).t \in {"undefined", "string"}
        THEN [ok |-> TRUE,
              v |-> Obj([k \in kept \cup {"action"} |->
                        IF k = "action"
                        THEN Obj([n \in {Tools[first]} |->
                                toolInputSchema(Tools[first],
                                                Prop(action, Tools[first])).v])
                        ELSE v.o[k]])]
        ELSE Invalid

(***************************************************************************)
(* lenientParseMacroToolCall.  A response is                               *)
(*   [choices |-> <<[finish_reason, message |-> [content, tool_calls]]>>]  *)
(* with tool_calls a sequence of [function |-> [name, arguments]]; an      *)
(* absent finish_reason is "", an absent content or arguments Undefined.   *)
(***************************************************************************)
Returned(data) == [ok |-> TRUE, type |-> "", message |-> "", data |-> data]

\* a thrown error; type TypeError is an exception that is not an InvokeError
InvokeError(type, message) ==
    [ok |-> FALSE, type |-> type, message |-> message, data |-> Undefined]

ProceedReasons == {"tool_calls", "function_call", "stop"}

\* the check of the finish reason; ok when the response may be read further
FinishReasonError(choice) ==
    CASE choice.finish_reason \in ProceedReasons -> Returned(Undefined)
      [] choice.finish_reason = "length" ->
            InvokeError("CONTEXT_LENGTH", "Response truncated: max tokens reached")
      [] choice.finish_reason = "content_filter" ->
            InvokeError("CONTENT_FILTER", "Content filtered by safety system")
      [] OTHER -> InvokeError("UNKNOWN", "Unexpected finish_reason")

DefaultAction == Obj([k \in {"wait"} |-> Obj([j \in {"seconds"} |-> Num(1)])])

\* the extraction of the arguments (repair #1 included), JSON.parse, the
\* repairs #2..#5 of the shape, #6 and the validation.  Each step hands on
\* the value it produced, or the error that was thrown before it.
Extract(choice) ==
    LET TypeError == InvokeError("TypeError", "Cannot read properties")
        WrongName == InvokeError("INVALID_TOOL_ARGS", "Expected function name AgentOutput")
        NoJson == InvokeError("INVALID_TOOL_ARGS", "Failed to parse tool arguments as JSON")
        FromJson(r, error) == IF r.ok THEN Returned(r.v) ELSE error
        \* #1: the bare parameters of a tool called by its own name are wrapped
        Wrap(name, tmpArg) ==
            IF ~tmpArg.ok THEN NoJson
            ELSE Returned(Str(JSONstringify(
                    Obj([k \in {"action"} |-> Obj([n \in {name} |-> tmpArg.v])]))))
        \* the text of the arguments: of the first tool call, else the content
        Arg ==
            IF /\ choice.message.tool_calls # <<>>
               /\ Truthy(choice.message.tool_calls[1].function.arguments)
            THEN LET toolCall == choice.message.tool_calls[1].function IN
                 IF toolCall.name # "AgentOutput"
                 THEN Wrap(toolCall.name, JSONparse(toolCall.arguments.s))
                 ELSE Returned(Str(toolCall.arguments.s))
            ELSE IF choice.message.content.t # "string" THEN TypeError
            ELSE IF trim(choice.message.content.s) = <<>>
            THEN InvokeError("NO_TOOL_CALL", "No tool call or content found in response")
            ELSE Returned(Str(trim(choice.message.content.s)))
        \* JSON.parse of the extracted text
        ParseArgs(arg) ==
            IF ~arg.ok THEN arg ELSE FromJson(JSONparse(arg.data.s), NoJson)
        \* the repairs #2..#5 of the shape of the parsed arguments
        RepairShape(parsed) ==
            IF ~parsed.ok THEN parsed
            ELSE LET parsedArgs == parsed.data IN
            IF parsedArgs.t = "null" THEN TypeError
            ELSE IF \/ Truthy(Prop(parsedArgs, "action"))
                    \/ Truthy(Prop(parsedArgs, "evaluation_previous_goal"))
                    \/ Truthy(Prop(parsedArgs, "next_goal"))
            THEN IF ~Truthy(Prop(parsedArgs, "action"))
                 THEN Returned(Obj([x \in DOMAIN parsedArgs.o \cup {"action"} |->
                            IF x = "action" THEN DefaultAction ELSE parsedArgs.o[x]]))
                 ELSE parsed
            ELSE IF Truthy(Prop(parsedArgs, "type")) /\ Truthy(Prop(parsedArgs, "function"))
            THEN IF Prop(Prop(parsedArgs, "function"), "name") # Plain("AgentOutput")
                 THEN WrongName
                 ELSE Returned(Prop(Prop(parsedArgs, "function"), "arguments"))
            ELSE IF Truthy(Prop(parsedArgs, "name")) /\ Truthy(Prop(parsedArgs, "arguments"))
            THEN IF Prop(parsedArgs, "name") # Plain("AgentOutput")
                 THEN WrongName
                 ELSE Returned(Prop(parsedArgs, "arguments"))
            ELSE Returned(Obj([k \in {"action"} |-> parsedArgs]))
        \* #6: arguments that are still a string are parsed once more
        ParseNested(shaped) ==
            IF ~shaped.ok \/ shaped.data.t # "string" THEN shaped
            ELSE FromJson(JSONparse(shaped.data.s),
                          InvokeError("INVALID_TOOL_ARGS",
                                      "Failed to parse nested tool arguments as JSON"))
        \* the outcome of the validation of v
        Validated(v, validation) ==
            IF validation.ok THEN Returned(validation.v)
            ELSE IF v.t \in {"null", "undefined"} THEN TypeError
            ELSE InvokeError("INVALID_TOOL_ARGS", "Tool arguments validation failed")
        ValidateArgs(inner) ==
            IF ~inner.ok THEN inner
            ELSE Validated(inner.data, macroToolSchema(inner.data))
    IN  ValidateArgs(ParseNested(RepairShape(ParseArgs(Arg))))

\* a normalizer that reads the arguments before it looks at the finish reason
ExtractFirst(responseData) ==
    IF responseData.choices = <<>> THEN InvokeError("UNKNOWN", "No choices in response")
    ELSE LET choice == responseData.choices[1]
             r == Extract(choice)
         IN  IF r.ok \/ FinishReasonError(choice).ok THEN r
             ELSE FinishReasonError(choice)

\* the decision or the classified error for one response
Normalize(responseData) ==
    IF responseData.choices = <<>> THEN InvokeError("UNKNOWN", "No choices in response")
    ELSE LET choice == responseData.choices[1] IN
         IF ~FinishReasonError(choice).ok THEN FinishReasonError(choice)
         ELSE Extract(choice)

\* a call that takes the tool calls out of the response it was given
ConsumingCall(responseData) ==
    [result |-> Normalize(responseData),
     responseData |->
        [choices |-> [i \in DOMAIN responseData.choices |->
            [responseData.choices[i] EXCEPT !.message.tool_calls = <<>>]]]]

\* one call: what it returns or throws, and the response object after it
lenientParseMacroToolCall(responseData) ==
    [result |-> Normalize(responseData), responseData |-> responseData]

(***************************************************************************)
(* The normalizer on its own: a response arrives, is normalized, and is    *)
(* normalized once more (SpecNorm).                                        *)
(***************************************************************************)
\* the well-formed decisions the responses below are variations of: a click
\* with and without an evaluation, and the default wait
WellFormed ==
    Obj([k \in {"evaluation_previous_goal", "action"} |->
            IF k = "action"
            THEN Obj([a \in {"click_element_by_index"} |-> Obj([j \in {"index"} |-> Num(1)])])
            ELSE Plain("ok")])

WellFormedBare == Obj([k \in {"action"} |-> WellFormed.o.action])

WellFormedWait == Obj([WellFormed.o EXCEPT !.action = DefaultAction])

\* the texts of the well-formed decision and of the shapes that are repaired
PayloadText ==
    LET Flat(name, arguments) ==
            Obj([j \in {"name", "arguments"} |->
                    IF j = "name" THEN Plain(name) ELSE arguments])
        Envelope(name, arguments) ==
            Obj([k \in {"type", "function"} |->
                    IF k = "type" THEN Plain("function") ELSE Flat(name, arguments)])
        text == JSONstringify(WellFormed)
    IN  [wellFormed         |-> text,
         bareParams         |-> JSONstringify(WellFormed.o.action.o.click_element_by_index),
         bareAction         |-> JSONstringify(WellFormed.o.action),
         envelope           |-> JSONstringify(Envelope("AgentOutput", WellFormed)),
         envelopeString     |-> JSONstringify(Envelope("AgentOutput", Str(text))),
         envelopeOther      |-> JSONstringify(Envelope("other", WellFormed)),
         flat               |-> JSONstringify(Flat("AgentOutput", WellFormed)),
         flatString         |-> JSONstringify(Flat("AgentOutput", Str(text))),
         emptyAction        |-> JSONstringify(Obj([WellFormed.o EXCEPT !.action = Obj(<<>>)])),
         noAction           |-> JSONstringify(Obj([k \in {"evaluation_previous_goal"} |->
                                                        Plain("ok")])),
         doubleEncoded      |-> <<Tok("string", "", 0, text)>>]

MalformedTexts ==
    {PayloadText[f] : f \in {"bareAction", "envelope", "envelopeString", "flat",
                             "flatString", "emptyAction", "noAction", "doubleEncoded"}}

\* what a response carries: the texts above, a padded and a truncated text,
\* prose, null, white space, nothing
PayloadTexts ==
    {PayloadText[f] : f \in DOMAIN PayloadText}
    \cup {JSONstringify(WellFormedBare), JSONstringify(WellFormedWait),
          <<Tok("ws", "", 0, <<>>)>> \o PayloadText.wellFormed \o <<Tok("ws", "", 0, <<>>)>>,
          SubSeq(PayloadText.wellFormed, 1, Len(PayloadText.wellFormed) - 1),
          <<Tok("word", "sorry", 0, <<>>)>>, <<Tok("literal", "null", 0, <<>>)>>,
          <<Tok("ws", "", 0, <<>>)>>, <<>>}

ToolCall(name, arguments) == <<[function |-> [name |-> name, arguments |-> arguments]]>>

Response(finish_reason, tool_calls, content) ==
    [choices |-> <<[finish_reason |-> finish_reason,
                    message |-> [content |-> content, tool_calls |-> tool_calls]]>>]

\* the responses of the model: no choice, or one choice with any finish
\* reason, no tool call or one under either name, and any content
Responses ==
    {[choices |-> <<>>]} \cup
    {Response(fr, tc, c) :
        fr \in {"stop", "tool_calls", "function_call", "length", "content_filter",
                "eos", ""},
        tc \in {<<>>} \cup
               {ToolCall(n, a) : n \in {"AgentOutput", "click_element_by_index"},
                                 a \in {Undefined} \cup {Str(t) : t \in PayloadTexts}},
        c \in {Null} \cup {Str(t) : t \in PayloadTexts}}

NoResult == InvokeError("", "")

InitNorm ==
    /\ InitSystem
    /\ probe \in {[fn |-> "response", given |-> r, responseData |-> r,
                   first |-> NoResult, second |-> NoResult] : r \in Responses}

\* the client hands the response to the normalizer
NormalizeCall ==
    /\ probe.fn = "response"
    /\ LET call == lenientParseMacroToolCall(probe.responseData)
       IN  probe' = [probe EXCEPT !.fn = "normalized",
                                  !.responseData = call.responseData,
                                  !.first = call.result]
    /\ UNCHANGED <<coordVars, contentVars>>

\* the same response object is handed to the normalizer once more
NormalizeAgain ==
    /\ probe.fn = "normalized"
    /\ LET call == lenientParseMacroToolCall(probe.responseData)
       IN  probe' = [probe EXCEPT !.fn = "renormalized",
                                  !.responseData = call.responseData,
                                  !.second = call.result]
    /\ UNCHANGED <<coordVars, contentVars>>

NextNorm == NormalizeCall \/ NormalizeAgain

SpecNorm == InitNorm /\ [][NextNorm]_vars

Normalized == probe.fn \in {"normalized", "renormalized"}

\* C12: the finish reason is classified before anything is extracted: a
\* response without a choice raises the no-choice error, finish_reason
\* 'length' the context-length error, 'content_filter' the content-filter
\* error, every value other than stop / tool_calls / function_call the
\* unclassified-finish error, whatever the payload of the response is.
C12_FinishReasonFirst ==
    Normalized =>
        IF probe.given.choices = <<>>
        THEN probe.first = InvokeError("UNKNOWN", "No choices in response")
        ELSE LET fr == probe.given.choices[1].finish_reason IN
             /\ fr = "length" =>
                  probe.first = InvokeError("CONTEXT_LENGTH",
                                            "Response truncated: max tokens reached")
             /\ fr = "content_filter" =>
                  probe.first = InvokeError("CONTENT_FILTER",
                                            "Content filtered by safety system")
             /\ fr \notin ProceedReasons \cup {"length", "content_filter"} =>
                  probe.first = InvokeError("UNKNOWN", "Unexpected finish_reason")

\* a truncated response whose tool call nevertheless carries a well-formed
\* decision has been normalized
C12_Witness ==
    /\ Normalized
    /\ probe.given.choices # <<>>
    /\ probe.given.choices[1].finish_reason = "length"
    /\ probe.given.choices[1].message.tool_calls
            = ToolCall("AgentOutput", Str(PayloadText.wellFormed))
    /\ probe.first.type = "CONTEXT_LENGTH"

\* the well-formed decision a malformed payload stands for
WellFormedEquivalent(text) ==
    CASE text = PayloadText.bareAction -> WellFormedBare
      [] text \in {PayloadText.emptyAction, PayloadText.noAction} -> WellFormedWait
      [] OTHER -> WellFormed

\* the payload of a response that carries it in one place only: as the
\* arguments of an AgentOutput tool call, or as free-text content
Delivered(responseData, text) ==
    /\ responseData.choices # <<>>
    /\ responseData.choices[1].finish_reason \in ProceedReasons
    /\ LET message == responseData.choices[1].message IN
       \/ message.tool_calls = ToolCall("AgentOutput", Str(text)) /\ message.content = Null
       \/ message.tool_calls = <<>> /\ message.content = Str(text)

\* C13: each of the malformed shapes (a bare action, the nested envelope, the
\* flat name/arguments pair, an empty or missing action, a double-encoded
\* JSON string), as tool-call arguments or as content, and bare parameters
\* under the name of their tool, normalize to the decision of the well-formed
\* equivalent.
C13_RepairCoverage ==
    Normalized =>
        /\ \A text \in MalformedTexts :
              Delivered(probe.given, text)
              => probe.first = Returned(WellFormedEquivalent(text))
        /\ (/\ probe.given.choices # <<>>
            /\ probe.given.choices[1].finish_reason \in ProceedReasons
            /\ probe.given.choices[1].message.tool_calls
                    = ToolCall("click_element_by_index", Str(PayloadText.bareParams)))
           => probe.first = Returned(WellFormedBare)

\* C14: free-text content {"evaluation_previous_goal":"ok","action":{}} is
\* normalized to a valid decision whose action is the default wait of one
\* second.
C14_EmptyActionDefaultsToWait ==
    (/\ Normalized
     /\ probe.given.choices # <<>>
     /\ probe.given.choices[1].finish_reason = "stop"
     /\ probe.given.choices[1].message.tool_calls = <<>>
     /\ probe.given.choices[1].message.content = Str(PayloadText.emptyAction))
    => /\ probe.first.ok
       /\ Prop(probe.first.data, "action") = DefaultAction

Appends(i) ==
    /\ i \in 1..Len(invs)
    /\ i \in 1..Len(invs')
    /\ invs[i].pc = "post"
    /\ Len(invs'[i].history) = Len(invs[i].history) + 1

\* what executeTask has reported last
Reported(sent) == sent[gen][Len(sent[gen])]

\* C16: when the step counter exceeds the maximum after an action that is not
\* done, the loop ends there (no further LLM call, no further action) and the
\* reported result is {success: false, data: 'Step count exceeded maximum
\* limit'}.
C16_StepLimitStops ==
    [][\A i \in 1..MaxInv :
        (Appends(i) /\ invs[i].pending # "done" /\ invs[i].step + 1 > MAX_STEPS)
        => /\ invs'[i].pc = "done"
           /\ ~invs'[i].running
           /\ Reported(c2b')
                = Completed(FALSE, "Step count exceeded maximum limit")]_vars

\* a loop that started without history was stopped by the step limit, after
\* actions that were not done
C16_Witness ==
    \E i \in 1..Len(invs) :
        /\ invs[i].pc = "done"
        /\ Len(invs[i].history) = MAX_STEPS + 1
        /\ \A k \in 1..Len(invs[i].history) :
              /\ invs[i].history[k].name = "click"
              /\ invs[i].history[k].id = StepId(i, k - 1)
        /\ c2b[gen] # <<>>
        /\ Reported(c2b) = Completed(FALSE, "Step count exceeded maximum limit")


\* C17: when the executed action is done, the loop ends with that step and
\* the reported result has the success flag of done's arguments and done's
\* text, on every iteration, the last one the step limit allows included.
C17_DoneDeterminesResult ==
    [][\A i \in 1..MaxInv :
        (Appends(i) /\ invs[i].pending = "done")
        => /\ invs'[i].pc = "done"
           /\ Reported(c2b') = Completed(invs[i].success, "text of done")]_vars


(***************************************************************************)
(* Failures of the LLM call: the HTTP errors of OpenAIClient.invoke, the   *)
(* inference of an error code from the message, and the catch block of     *)
(* PageAgent.execute (SpecErr).  A message is a sequence of words;         *)
(* includes looks for a phrase, a contiguous run of words.                 *)
(***************************************************************************)
includes(message, phrase) ==
    \E k \in 0..(Len(message) - Len(phrase)) :
        SubSeq(message, k + 1, k + Len(phrase)) = phrase

\* String.prototype.toLowerCase, word by word: the words of this model that
\* have upper-case letters, and their lower-case forms
toLowerCase(message) ==
    LET LowerCaseOf ==

        [w \in {"Authentication", "Unauthorized", "Incorrect", "Invalid", "API",
                "Unknown", "Rate", "Server", "HTTP", "Internal", "Too", "Many",
                "Requests", "Forbidden", "Failed", "Not", "Found"} |->
            CASE w = "Authentication" -> "authentication"
              [] w = "Unauthorized" -> "unauthorized"
              [] w = "Incorrect" -> "incorrect"
              [] w = "Invalid" -> "invalid"
              [] w = "API" -> "api"
              [] w = "Unknown" -> "unknown"
              [] w = "Rate" -> "rate"
              [] w = "Server" -> "server"
              [] w = "HTTP" -> "http"
              [] w = "Internal" -> "internal"
              [] w = "Too" -> "too"
              [] w = "Many" -> "many"
              [] w = "Requests" -> "requests"
              [] w = "Forbidden" -> "forbidden"
              [] w = "Failed" -> "failed"
              [] w = "Not" -> "not"
              [] w = "Found" -> "found"]
    IN  [k \in 1..Len(message) |->
            IF message[k] \in DOMAIN LowerCaseOf THEN LowerCaseOf[message[k]]
            ELSE message[k]]

\* inferErrorCode: the first group of phrases the lower-case message includes
inferErrorCode(errorMessage) ==
    LET message == toLowerCase(errorMessage)
        has(phrase) == includes(message, phrase)
    IN  CASE has(<<"network">>) \/ has(<<"fetch">>) -> "NETWORK_ERROR"
          [] has(<<"timeout">>) \/ has(<<"timed", "out">>) -> "TIMEOUT"
          [] has(<<"401">>) \/ has(<<"unauthorized">>)
                \/ has(<<"invalid", "api", "key">>) -> "LLM_AUTH_ERROR"
          [] has(<<"429">>) \/ has(<<"rate", "limit">>)
                \/ has(<<"too", "many", "requests">>) -> "LLM_RATE_LIMIT"
          [] has(<<"404">>) \/ has(<<"404:">>) \/ has(<<"model", "not", "found">>)
                \/ has(<<"does", "not", "exist">>) -> "LLM_MODEL_NOT_FOUND"
          [] has(<<"500">>) \/ has(<<"502">>) \/ has(<<"503">>)
                \/ has(<<"internal", "server">>) -> "LLM_API_ERROR"
          [] has(<<"abort">>) -> "TASK_ABORTED"
          [] has(<<"max">>) /\ has(<<"step">>) -> "TASK_MAX_STEPS"
          [] has(<<"element">>) /\ (has(<<"not", "found">>) \/ has(<<"not", "exist">>))
                -> "ELEMENT_NOT_FOUND"
          [] OTHER -> "UNKNOWN"

\* USER_FRIENDLY_MESSAGES, for the codes inferErrorCode returns (the texts of
\* the source are Chinese; these are their meanings)
USER_FRIENDLY_MESSAGES ==
    [code \in {"NETWORK_ERROR", "TIMEOUT", "LLM_AUTH_ERROR", "LLM_RATE_LIMIT",
               "LLM_MODEL_NOT_FOUND", "LLM_API_ERROR", "TASK_ABORTED",
               "TASK_MAX_STEPS", "ELEMENT_NOT_FOUND", "UNKNOWN"} |->
        CASE code = "NETWORK_ERROR" -> "network connection failed"
          [] code = "TIMEOUT" -> "request timed out"
          [] code = "LLM_AUTH_ERROR" -> "API authentication failed"
          [] code = "LLM_RATE_LIMIT" -> "AI service requests too frequent"
          [] code = "LLM_MODEL_NOT_FOUND" -> "model does not exist"
          [] code = "LLM_API_ERROR" -> "AI service temporarily unavailable"
          [] code = "TASK_ABORTED" -> "task aborted"
          [] code = "TASK_MAX_STEPS" -> "task steps over the limit"
          [] code = "ELEMENT_NOT_FOUND" -> "element not found"
          [] OTHER -> "unknown error"]

\* AgentError.fromError on an error that is not an AgentError
fromError(error) ==
    [code |-> inferErrorCode(error.message),
     userMessage |-> USER_FRIENDLY_MESSAGES[inferErrorCode(error.message)]]

\* the answer of the coordinator's PROXY_FETCH to a completed fetch; an
\* empty text stands for an absent one
ProxyResponse(status, statusText, text) ==
    [ok |-> status >= 200 /\ status <= 299, status |-> status,
     statusText |-> statusText, error |-> <<>>, data |-> text]

\* OpenAIClient.invoke, the HTTP errors of a response that is not ok
HttpError(proxyResponse) ==
    LET errorMessage ==
            IF proxyResponse.error # <<>> THEN proxyResponse.error
            ELSE IF proxyResponse.data # <<>> THEN proxyResponse.data
            ELSE IF proxyResponse.statusText # <<>> THEN proxyResponse.statusText
            ELSE <<"Unknown", "error">>
        status == proxyResponse.status
        \* the digits of the status, as a word of the message
        StatusWord == CASE status = 400 -> "400:" [] status = 404 -> "404:" [] OTHER -> "0:"
    IN  CASE status = 401 \/ status = 403 ->
                InvokeError("AUTH_ERROR", <<"Authentication", "failed:">> \o errorMessage)
          [] status = 429 ->
                InvokeError("RATE_LIMIT", <<"Rate", "limit", "exceeded:">> \o errorMessage)
          [] status >= 500 ->
                InvokeError("SERVER_ERROR", <<"Server", "error:">> \o errorMessage)
          [] OTHER -> InvokeError("UNKNOWN", <<"HTTP", StatusWord>> \o errorMessage)

\* what execute() does with an error: rethrows AbortError, or returns a result
Rethrown == [thrown |-> TRUE, success |-> FALSE, data |-> "AbortError"]

Result(success, data) == [thrown |-> FALSE, success |-> success, data |-> data]

\* the catch block of PageAgent.execute, for the error of the LLM call and
\* the reason of the abort signal
Catch(error, reason) ==
    LET Transient ==
            \/ includes(error.message, <<"back/forward", "cache">>)
            \/ includes(error.message, <<"Extension", "context", "invalidated">>)
            \/ includes(error.message, <<"message", "channel", "is", "closed">>)
            \/ includes(error.message, <<"Failed", "to", "fetch">>)
    IN
    IF Transient THEN Rethrown
    ELSE IF fromError(error).code = "TASK_ABORTED" \/ error.message = <<"AbortError">>
    THEN IF reason = "PAGE_UNLOADING" THEN Rethrown ELSE Result(FALSE, "Aborted")
    ELSE Result(FALSE, fromError(error).userMessage)

\* the answers of the model: statuses with or without their status text and
\* with or without a body message of the provider, and fetches that threw
ProxyResponses ==
    LET StatusTexts ==
        [s \in {400, 401, 403, 404, 429, 500} |->
            CASE s = 400 -> <<"Bad", "Request">>
              [] s = 401 -> <<"Unauthorized">>
              [] s = 403 -> <<"Forbidden">>
              [] s = 404 -> <<"Not", "Found">>
              [] s = 429 -> <<"Too", "Many", "Requests">>
              [] OTHER -> <<"Internal", "Server", "Error">>]
        ProviderTexts ==
        {<<>>,
         <<"Incorrect", "API", "key", "provided">>,
         <<"Invalid", "API", "key">>,
         <<"invalid", "x-api-key">>,
         <<"Rate", "limit", "reached">>,
         <<"model", "does", "not", "exist">>,
         <<"The", "server", "had", "an", "error">>}
        ProxyFailure(text) ==
            [ok |-> FALSE, status |-> 0, statusText |-> <<>>, error |-> text,
             data |-> <<>>]
    IN  UNION {{ProxyResponse(s, st, text) :
                    st \in {<<>>, StatusTexts[s]}, text \in ProviderTexts} :
                s \in DOMAIN StatusTexts}
        \cup {ProxyFailure(<<"Failed", "to", "fetch">>),
              ProxyFailure(<<"Fetch", "failed">>)}


\* an LLM call is answered while the signal is not aborted, or aborted for
\* one of the two reasons; or the loop's abort check has thrown AbortError
InitErr ==
    /\ InitSystem
    /\ probe \in {[fn |-> "proxyResponse", proxyResponse |-> r, reason |-> a,
                   error |-> NoResult, outcome |-> Rethrown, sent |-> <<>>] :
                    r \in ProxyResponses,
                    a \in {"", "USER_STOPPED", "PAGE_UNLOADING"}}
             \cup {[fn |-> "thrown", proxyResponse |-> ProxyResponse(200, <<>>, <<>>),
                    reason |-> a, error |-> InvokeError("", <<"AbortError">>),
                    outcome |-> Rethrown, sent |-> <<>>] :
                    a \in {"USER_STOPPED", "PAGE_UNLOADING"}}

\* invoke() throws the InvokeError of the HTTP error
InvokeThrows ==
    /\ probe.fn = "proxyResponse"
    /\ ~probe.proxyResponse.ok
    /\ probe' = [probe EXCEPT !.fn = "thrown", !.error = HttpError(probe.proxyResponse)]
    /\ UNCHANGED <<coordVars, contentVars>>

\* the error reaches the catch block of execute()
ExecuteCatches ==
    /\ probe.fn = "thrown"
    /\ probe' = [probe EXCEPT !.fn = "caught", !.outcome = Catch(probe.error, probe.reason)]
    /\ UNCHANGED <<coordVars, contentVars>>

\* executeTask after execute(): TASK_COMPLETED with the result, or nothing
\* when AbortError was thrown
ExecuteTaskReports ==
    /\ probe.fn = "caught"
    /\ probe' = [probe EXCEPT
                    !.fn = "reported",
                    !.sent = IF probe.outcome.thrown THEN <<>>
                             ELSE <<Completed(probe.outcome.success, probe.outcome.data)>>]
    /\ UNCHANGED <<coordVars, contentVars>>

NextErr == InvokeThrows \/ ExecuteCatches \/ ExecuteTaskReports

SpecErr == InitErr /\ [][NextErr]_vars

\* C18: an LLM call answered with HTTP 401 is classified as an authentication
\* error, and the task ends with a failed result whose user-facing message is
\* the one of an authentication failure.
C18_AuthFailure ==
    (probe.fn = "caught" /\ probe.proxyResponse.status = 401)
    => /\ probe.error.type = "AUTH_ERROR"
       /\ probe.outcome = Result(FALSE, USER_FRIENDLY_MESSAGES["LLM_AUTH_ERROR"])


(***************************************************************************)
(* One PageAgent whose execute() is called more than once: by the content  *)
(* script, and by the panel's onExecuteTask (SpecAgent).  The agent has    *)
(* one running flag and one current AbortController; each call of          *)
(* execute() is a loop of its own, and an LLM call keeps the signal it was *)
(* started with.                                                           *)
(***************************************************************************)
MaxLoops == 2

InitAgent ==
    /\ InitSystem
    /\ probe = [fn |-> "agent", running |-> FALSE, paused |-> FALSE, controller |-> 0,
                abortedControllers |-> {}, history |-> 0, loops |-> <<>>]

\* the loops that execute an action, or wait for an LLM call whose signal is
\* not aborted
ActiveLoops ==
    {l \in 1..Len(probe.loops) :
        \/ probe.loops[l].pc = "tool"
        \/ /\ probe.loops[l].pc = "llm"
           /\ probe.loops[l].signal \notin probe.abortedControllers}

\* execute(task) up to its first await: this.running = true
Execute ==
    /\ Len(probe.loops) < MaxLoops
    /\ probe' = [probe EXCEPT !.running = TRUE, !.loops = Append(@, [pc |-> "called", signal |-> 0,
                                                  step |-> 0, pending |-> ""])]
    /\ UNCHANGED <<coordVars, contentVars>>

\* the catch and finally blocks, or a return after #onDone, for loop l
EndLoop(l, onDoneCalled) ==
    probe' = [probe EXCEPT
                !.running = FALSE,
                !.abortedControllers =
                    IF onDoneCalled THEN @ \cup {probe.controller} ELSE @,
                !.loops[l] = [@ EXCEPT !.pc = "returned", !.pending = ""]]

\* execute after onBeforeTask: the controller is aborted and replaced, step
\* is the length of the history, the abort check passes, and the LLM is
\* invoked unless the agent is paused
LoopEnters(l) ==
    /\ probe.loops[l].pc = "called"
    /\ probe' = [probe EXCEPT
                    !.abortedControllers = @ \cup {probe.controller},
                    !.controller = @ + 1,
                    !.loops[l] = [@ EXCEPT !.pc = IF probe.paused THEN "pausedStep" ELSE "llm",
                                           !.signal = probe.controller + 1,
                                           !.step = probe.history]]
    /\ UNCHANGED <<coordVars, contentVars>>

\* a macro tool that starts the action whether the agent is paused or not
LoopLlmSettlesUnpaused(l) ==
    /\ probe.loops[l].pc = "llm"
    /\ IF probe.loops[l].signal \in probe.abortedControllers
       THEN EndLoop(l, FALSE)
       ELSE \/ EndLoop(l, TRUE)
            \/ IF probe.controller \in probe.abortedControllers
               THEN EndLoop(l, FALSE)
               ELSE \E name \in ActionNames :
                        probe' = [probe EXCEPT !.loops[l] =
                                    [@ EXCEPT !.pc = "tool", !.pending = name]]
    /\ UNCHANGED <<coordVars, contentVars>>

\* the LLM call of loop l settles: rejected when its signal was aborted or
\* the call failed, else the macro tool checks the current signal and starts
\* the action unless the agent is paused
LoopLlmSettles(l) ==
    /\ probe.loops[l].pc = "llm"
    /\ IF probe.loops[l].signal \in probe.abortedControllers
       THEN EndLoop(l, FALSE)
       ELSE \/ EndLoop(l, TRUE)
            \/ IF probe.controller \in probe.abortedControllers
               THEN EndLoop(l, FALSE)
               ELSE \E name \in ActionNames :
                        probe' = [probe EXCEPT !.loops[l] =
                                    [@ EXCEPT !.pc = IF probe.paused THEN "pausedTool"
                                                     ELSE "tool",
                                              !.pending = name]]
    /\ UNCHANGED <<coordVars, contentVars>>

\* the action of loop l finishes: the step is pushed, the loop returns at the
\* limit or after done, else checks the current signal and invokes the LLM
\* unless the agent is paused
LoopStepAppended(l) ==
    /\ probe.loops[l].pc = "tool"
    /\ IF ExceedsLimit(probe.loops[l].step + 1) \/ probe.loops[l].pending = "done"
       THEN probe' = [probe EXCEPT
                        !.history = @ + 1,
                        !.running = FALSE,
                        !.abortedControllers = @ \cup {probe.controller},
                        !.loops[l] = [@ EXCEPT !.pc = "returned", !.pending = "",
                                               !.step = @ + 1]]
       ELSE IF probe.controller \in probe.abortedControllers
       THEN probe' = [probe EXCEPT
                        !.history = @ + 1,
                        !.running = FALSE,
                        !.loops[l] = [@ EXCEPT !.pc = "returned", !.pending = "",
                                               !.step = @ + 1]]
       ELSE probe' = [probe EXCEPT
                        !.history = @ + 1,
                        !.loops[l] = [@ EXCEPT !.pc = IF probe.paused THEN "pausedStep"
                                                     ELSE "llm",
                                               !.pending = "",
                                               !.step = @ + 1,
                                               !.signal = probe.controller]]
    /\ UNCHANGED <<coordVars, contentVars>>

NextAgent ==
    \/ Execute
    \/ \E l \in 1..MaxLoops :
          /\ l <= Len(probe.loops)
          /\ (LoopEnters(l) \/ LoopLlmSettles(l) \/ LoopStepAppended(l))

SpecAgent == InitAgent /\ [][NextAgent]_vars

\* C19: a second call of execute on an agent whose loop is active starts no
\* second loop beside it, and the running flag is true while a loop of the
\* agent is active.
C19_ExecuteRejectsWhileRunning ==
    probe.fn = "agent"
    => /\ Cardinality(ActiveLoops) <= 1
       /\ ActiveLoops # {} => probe.running


(***************************************************************************)
(* PageAgent.stop (SpecCtx).                                               *)
(***************************************************************************)
\* the step in which stopTask runs: nothing else reports TASK_STOPPED
StopTaskRuns == c2b'[gen] = Append(c2b[gen], [type |-> "TASK_STOPPED"])

\* C20: stop() on a running agent that is not disposed aborts the signal and
\* sets running to false, and leaves the history and every other field as
\* they were; stop() on a disposed or non-running agent changes nothing.
C20_StopFrame ==
    [][/\ (/\ StopTaskRuns
           /\ pageAgent # 0
           /\ invs[pageAgent].running
           /\ ~invs[pageAgent].disposed)
          => /\ invs'[pageAgent].aborted
             /\ ~invs'[pageAgent].running
             /\ invs'[pageAgent].history = invs[pageAgent].history
             /\ invs'[pageAgent] = [invs[pageAgent] EXCEPT
                                        !.aborted = TRUE, !.running = FALSE,
                                        !.reason = IF invs[pageAgent].aborted
                                                   THEN invs[pageAgent].reason
                                                   ELSE "USER_STOPPED"]
       /\ \A i \in 1..Len(invs) :
             (invs[i].disposed \/ ~invs[i].running) => stop(invs[i]) = invs[i]]_vars

\* an agent with a recorded step was stopped while its loop was running
C20_Witness ==
    \E i \in 1..Len(invs) :
        /\ invs[i].pc \in {"llm", "tool", "post"}
        /\ invs[i].aborted
        /\ invs[i].reason = "USER_STOPPED"
        /\ ~invs[i].running
        /\ ~invs[i].disposed
        /\ Len(invs[i].history) > 0


(***************************************************************************)
(* PageAgent.dispose, as the content script and the agent's own unload     *)
(* listener call it (SpecCtx): dispose('STARTING_NEW_TASK') on the         *)
(* previous agent when executeTask starts, dispose('USER_STOPPED') when    *)
(* stopTask finds an agent that is not running, dispose('PAGE_UNLOADING')  *)
(* on every agent that is not disposed at beforeunload.                    *)
(***************************************************************************)
\* C21: every call of dispose leaves the agent disposed and its signal
\* aborted; a call with a reason other than page-unloading or user-stopped
\* leaves the history empty, a call with one of those two reasons leaves the
\* history exactly as it was.
C21_DisposeByReason ==
    [][\A i \in 1..Len(invs) :
        LET newTask == pageAgent = i /\ Len(invs') > Len(invs)
            userStopped == /\ StopTaskRuns /\ pageAgent = i
                           /\ ~invs[i].disposed /\ ~invs[i].running
            unloading == /\ ctx = "alive" /\ ctx' = "unloading"
                         /\ invs[i].created /\ ~invs[i].disposed
        IN  /\ (newTask \/ userStopped \/ unloading)
               => invs'[i].disposed /\ invs'[i].aborted
            /\ newTask => invs'[i].history = <<>>
            /\ (userStopped \/ unloading) => invs'[i].history = invs[i].history]_vars

\* C21, amended: a call of dispose on an agent that is already disposed, with
\* a reason other than page-unloading, changes nothing; every other call
\* leaves the agent disposed and its signal aborted, and the history empty
\* unless the reason is page-unloading or user-stopped, when the history is
\* exactly as it was.
C21_DisposeByReasonOnce ==
    [][\A i \in 1..Len(invs) :
        LET newTask == pageAgent = i /\ Len(invs') > Len(invs)
            userStopped == /\ StopTaskRuns /\ pageAgent = i
                           /\ ~invs[i].disposed /\ ~invs[i].running
            unloading == /\ ctx = "alive" /\ ctx' = "unloading"
                         /\ invs[i].created /\ ~invs[i].disposed
        IN  /\ (newTask \/ userStopped \/ unloading)
               => invs'[i].disposed /\ invs'[i].aborted
            /\ newTask => IF invs[i].disposed THEN invs'[i] = invs[i]
                          ELSE invs'[i].history = <<>>
            /\ (userStopped \/ unloading) => invs'[i].history = invs[i].history]_vars

\* the page unloaded under a running loop that had recorded a step: its
\* agent is disposed for that reason and holds the history
C21_Witness ==
    \E i \in 1..Len(invs) :
        /\ ctx = "unloading"
        /\ invs[i].disposed
        /\ invs[i].reason = "PAGE_UNLOADING"
        /\ invs[i].pc \in {"llm", "tool", "post"}
        /\ Len(invs[i].history) > 0


(***************************************************************************)
(* The wait accounting of the macro tool (SpecWait): the tools of one      *)
(* agent execute one after the other; a wait is asked for input.seconds    *)
(* and its execution is measured to take duration milliseconds.            *)
(***************************************************************************)
MaxWaitSeconds == 2     \* the seconds a wait may ask for (the schema allows 1..10)
MaxCalls == 3           \* tool executions of the agent

\* the lines after tool.execute: the new #totalWaitTime and whether the
\* returned text carries 'Do NOT wait any longer'; Math.round of
\* seconds + duration / 1000 is taken on the milliseconds
WaitAccounting(totalWaitTime, toolName, seconds, duration) ==
    IF toolName = "wait"
    THEN LET total == totalWaitTime + ((1000 * seconds + duration + 500) \div 1000)
         IN  [totalWaitTime |-> total, hint |-> total >= 3]
    ELSE [totalWaitTime |-> 0, hint |-> FALSE]

InitWait ==
    /\ InitSystem
    /\ probe = [fn |-> "tools", calls |-> 0, totalWaitTime |-> 0, toolName |-> "",
                seconds |-> 0, duration |-> 0, hint |-> FALSE]

\* the macro tool executes one tool: a wait that takes no longer than the
\* seconds it was asked for (the page may have been idle for some of them
\* already), or another tool
ToolExecutes ==
    /\ probe.fn = "tools"
    /\ probe.calls < MaxCalls
    /\ \E toolName \in {"wait", "click_element_by_index"}, seconds \in 1..MaxWaitSeconds,
          duration \in {0, 400, 1000, 1600, 2000} :
          /\ toolName = "wait" => duration <= 1000 * seconds
          /\ toolName # "wait" => seconds = 1 /\ duration <= 400
          /\ LET r == WaitAccounting(probe.totalWaitTime, toolName, seconds, duration)
             IN  probe' = [probe EXCEPT !.calls = @ + 1,
                                        !.totalWaitTime = r.totalWaitTime,
                                        !.toolName = toolName,
                                        !.seconds = IF toolName = "wait" THEN seconds ELSE 0,
                                        !.duration = duration,
                                        !.hint = r.hint]
    /\ UNCHANGED <<coordVars, contentVars>>

SpecWait == InitWait /\ [][ToolExecutes]_vars

\* C22: a wait action adds its elapsed time (to the nearest second) to the
\* wait accumulator, any other action resets the accumulator to zero, and
\* the returned text of a wait carries the 'do not wait any longer' hint
\* exactly when the accumulator has reached 3 seconds.
C22_WaitAccumulator ==
    [][probe'.calls = probe.calls + 1 =>
        IF probe'.toolName = "wait"
        THEN /\ probe'.totalWaitTime
                    = probe.totalWaitTime + ((probe'.duration + 500) \div 1000)
             /\ probe'.hint <=> probe'.totalWaitTime >= 3
        ELSE probe'.totalWaitTime = 0 /\ ~probe'.hint]_vars


(***************************************************************************)
(* Silent aborts (SpecErr).  The LLM call is proxied by the service        *)
(* worker, which a navigation of the page does not tear down: an answer    *)
(* of the proxy that is not ok is a failure of the call itself.            *)
(***************************************************************************)
\* C23: a loop that ends at its abort check because the page is unloading
\* reports nothing to the coordinator (neither TASK_COMPLETED nor
\* TASK_ERROR), and a genuine failure - an LLM call that failed while the
\* page is not unloading - is always reported with TASK_COMPLETED or
\* TASK_ERROR.
C23_SilentAbortOnlyForNavigation ==
    probe.fn = "reported" =>
        /\ (probe.error.message = <<"AbortError">> /\ probe.reason = "PAGE_UNLOADING")
           => probe.sent = <<>>
        /\ (~probe.proxyResponse.ok /\ probe.reason # "PAGE_UNLOADING")
           => /\ probe.sent # <<>>
              /\ probe.sent[1].type \in {"TASK_COMPLETED", "TASK_ERROR"}


(***************************************************************************)
(* Remote injection through the debugger (SpecDbg).  The service worker    *)
(* serves DEBUGGER_CLICK, DEBUGGER_TYPE and DEBUGGER_PRESS_KEY of one tab; *)
(* each handler awaits chrome.debugger calls, so two of them interleave    *)
(* at every call.  attached is the session of the extension on the tab.    *)
(***************************************************************************)
MaxText == 1            \* characters of the text of a DEBUGGER_TYPE

\* a handler that leaves the session alone when a call failed
performDebuggerKeepsSession(act, attached, result) ==
    CASE act.pc = "attach" ->
            IF result = "ok"
            THEN [act |-> [act EXCEPT !.pc = IF act.left = 0 THEN "detach" ELSE "command"],
                  attached |-> TRUE]
            ELSE IF result = "Already attached"
            THEN [act |-> [act EXCEPT !.pc = IF act.left = 0 THEN "detach" ELSE "command"],
                  attached |-> attached]
            ELSE [act |-> [act EXCEPT !.pc = "catch"], attached |-> attached]
      [] act.pc = "command" ->
            IF result = "ok"
            THEN [act |-> [act EXCEPT !.left = @ - 1,
                                      !.pc = IF act.left = 1 THEN "detach" ELSE "command"],
                  attached |-> attached]
            ELSE [act |-> [act EXCEPT !.pc = "catch"], attached |-> attached]
      [] act.pc = "detach" ->
            IF result = "ok"
            THEN [act |-> [act EXCEPT !.pc = "done"], attached |-> FALSE]
            ELSE [act |-> [act EXCEPT !.pc = "catch"], attached |-> attached]
      [] act.pc = "catch" ->
            [act |-> [act EXCEPT !.pc = "done", !.failed = TRUE], attached |-> attached]
      [] OTHER -> [act |-> act, attached |-> attached]

\* one chrome.debugger call of performDebuggerClick, performDebuggerType or
\* performDebuggerPressKey returns with result: the attach (an error whose
\* message includes 'Already attached' is swallowed), an injected command,
\* the detach that ends the try block, or the detach of the catch block
\* (whose own error is swallowed)
performDebugger(act, attached, result) ==
    CASE act.pc = "attach" ->
            IF result = "ok"
            THEN [act |-> [act EXCEPT !.pc = IF act.left = 0 THEN "detach" ELSE "command"],
                  attached |-> TRUE]
            ELSE IF result = "Already attached"
            THEN [act |-> [act EXCEPT !.pc = IF act.left = 0 THEN "detach" ELSE "command"],
                  attached |-> attached]
            ELSE [act |-> [act EXCEPT !.pc = "catch"], attached |-> attached]
      [] act.pc = "command" ->
            IF result = "ok"
            THEN [act |-> [act EXCEPT !.left = @ - 1,
                                      !.pc = IF act.left = 1 THEN "detach" ELSE "command"],
                  attached |-> attached]
            ELSE [act |-> [act EXCEPT !.pc = "catch"], attached |-> attached]
      [] act.pc = "detach" ->
            IF result = "ok"
            THEN [act |-> [act EXCEPT !.pc = "done"], attached |-> FALSE]
            ELSE [act |-> [act EXCEPT !.pc = "catch"], attached |-> attached]
      [] act.pc = "catch" ->
            [act |-> [act EXCEPT !.pc = "done", !.failed = TRUE],
             attached |-> IF result = "ok" THEN FALSE ELSE attached]
      [] OTHER -> [act |-> act, attached |-> attached]

InitDbg ==
    /\ InitSystem
    /\ probe = [fn |-> "debugger", attached |-> FALSE, calls |-> 0,
                acts |-> [i \in 1..2 |-> [kind |-> "", pc |-> "idle", left |-> 0,
                                          failed |-> FALSE, response |-> <<>>]]]

\* the service worker receives a debugger message of the tab and enters
\* the handler: a click injects three commands, a text two per character,
\* a key press two
DebuggerMessage ==
    /\ probe.fn = "debugger"
    /\ probe.calls < MaxCalls
    /\ \E i \in 1..2, kind \in {"DEBUGGER_CLICK", "DEBUGGER_TYPE", "DEBUGGER_PRESS_KEY"},
          len \in 0..MaxText :
          /\ probe.acts[i].pc \in {"idle", "done"}
          /\ kind # "DEBUGGER_TYPE" => len = 0
          /\ probe' = [probe EXCEPT !.calls = @ + 1,
                          !.acts[i] = [kind |-> kind, pc |-> "attach",
                                       left |-> CASE kind = "DEBUGGER_CLICK" -> 3
                                                  [] kind = "DEBUGGER_TYPE" -> 2 * len
                                                  [] OTHER -> 2,
                                       failed |-> FALSE, response |-> <<>>]]
    /\ UNCHANGED <<coordVars, contentVars>>

\* the browser answers the call a handler awaits: an attach succeeds only
\* on a tab without a session, a command or a detach only on a tab with
\* one; every call may fail, and the message of a refused second attach
\* may or may not include 'Already attached'.  Once the awaited function
\* has returned, handleMessage answers the sender with success: true
DebuggerReturns ==
    /\ probe.fn = "debugger"
    /\ \E i \in 1..2, result \in {"ok", "Already attached", "error"} :
          /\ probe.acts[i].pc \in {"attach", "command", "detach", "catch"}
          /\ CASE probe.acts[i].pc = "attach" ->
                      IF probe.attached THEN result # "ok" ELSE result # "Already attached"
               [] probe.acts[i].pc = "command" ->
                      IF probe.attached THEN result # "Already attached" ELSE result = "error"
               [] OTHER -> result = IF probe.attached THEN "ok" ELSE "error"
          /\ LET r == performDebugger(probe.acts[i], probe.attached, result)
                 sent == IF r.act.pc = "done" THEN <<[success |-> TRUE]>> ELSE <<>>
             IN  probe' = [probe EXCEPT !.acts[i] = [r.act EXCEPT !.response = sent],
                                        !.attached = r.attached]
    /\ UNCHANGED <<coordVars, contentVars>>

SpecDbg == InitDbg /\ [][DebuggerMessage \/ DebuggerReturns]_vars

\* C24: whenever no remote-injection action of the tab is in flight, the
\* debugger session of the tab has been released, whichever call of an
\* action failed and however two actions interleaved.
C24_SessionReleased ==
    probe.fn = "debugger" =>
        ((\A i \in 1..2 : probe.acts[i].pc \in {"idle", "done"}) => ~probe.attached)

\* two actions have run on the tab, one of them through its catch block
C24_Witness ==
    /\ probe.fn = "debugger"
    /\ probe.acts[1].pc = "done" /\ probe.acts[2].pc = "done"
    /\ probe.acts[1].failed /\ ~probe.acts[2].failed
    /\ probe.acts[2].kind = "DEBUGGER_CLICK"
    /\ ~probe.attached


(***************************************************************************)
(* Late heartbeats (Spec).  The messages of the content script and the     *)
(* commands of the popup reach the service worker in no fixed order.       *)
(***************************************************************************)
\* C25: once the stored record of a tab is completed, failed or stopping,
\* no TASK_HEARTBEAT or TASK_PROGRESS handled later turns its status back
\* into a non-terminal one.
C25_TerminalAbsorbing ==
    [][\A tab \in Tabs :
          (/\ HasRecord(tab)
           /\ activeTasks[tab].status \in {"completed", "failed", "stopping"}
           /\ last'.op \in {"TASK_HEARTBEAT", "TASK_PROGRESS"}
           /\ last'.tab = tab)
          => /\ tab \in DOMAIN activeTasks'
             /\ activeTasks'[tab].status \in terminalStatuses]_vars


(***************************************************************************)
(* Restarts of the service worker (FairRestart).  The browser terminates   *)
(* an idle service worker and starts it again on the next event: the       *)
(* records in chrome.storage.local stay, the pending setTimeout callbacks  *)
(* are gone.                                                               *)
(***************************************************************************)
WorkerRestarts ==
    /\ timers' = [t \in Tabs |-> 0]
    /\ last' = NoEvent
    /\ UNCHANGED <<activeTasks, uuidCtr, contentVars, probe>>

\* the timers that are pending fire once their delay has elapsed
FairRestart ==
    /\ Init
    /\ [][NextCoord \/ WorkerRestarts]_vars
    /\ \A tab \in Tabs : WF_vars(GraceTimerFires(tab) /\ UNCHANGED <<contentVars, probe>>)

\* C26: wherever the service worker is destroyed and recreated, a record
\* marked completed or failed is eventually deleted, and a navigation that
\* completes while the record is stored does not resume it.
C26_RestartTolerant ==
    /\ \A tab \in Tabs :
          (last.op \in {"TASK_COMPLETED", "TASK_ERROR"} /\ last.tab = tab)
              ~> ~HasRecord(tab)
    /\ [][\A tab \in Tabs :
            (/\ HasRecord(tab)
             /\ activeTasks[tab].status \in {"completed", "failed"}
             /\ OnUpdated(tab))
            => last'.sent = <<>>]_vars


(***************************************************************************)
(* Resume after a failed dispatch (FairResume).  The user starts a task    *)
(* in the first document of the tab and then leaves the tab to the agent;  *)
(* the first document is the one that navigates away.  Queued messages     *)
(* are handled by their receivers, the content script is injected into     *)
(* the document the tab loads, and the awaits of a running loop return.    *)
(***************************************************************************)
LoopStep ==
    \E i \in 1..Len(invs) :
        \/ GetConfigFails(i) \/ AgentStarts(i)
        \/ LlmFails(i) \/ LlmResponds(i)
        \/ ToolFails(i) \/ ToolFinishes(i) \/ StepAppended(i)

FairResume ==
    /\ Init
    /\ [][\/ UserExecute /\ gen = 0
          \/ ContentReceives
          \/ LoopStep
          \/ BeforeUnload /\ gen = 0
          \/ ContextDestroyed
          \/ ContextLoaded
          \/ \E g \in 0..MaxNav : BgReceives(g)
          \/ BgOnUpdated
          \/ BgGraceTimerFires]_vars
    /\ WF_vars(ContextLoaded)
    /\ WF_vars(ContentReceives)
    /\ WF_vars(LoopStep)
    /\ \A g \in 0..MaxNav : WF_vars(BgReceives(g))

\* C27: a resume dispatch of onUpdated that finds no content script
\* listening in the tab leaves the stored record as it is, and the task of
\* the record, as long as it is stored and not terminal, is eventually
\* started again in the new context.
C27_FailedDispatchStillResumes ==
    /\ [][(BgOnUpdated /\ ctx = "none" /\ last'.sent # <<>>)
            => (activeTasks' = activeTasks /\ b2c' = b2c)]_vars
    /\ \A task \in Instr :
          (/\ last.op = "onUpdated" /\ last.sent # <<>> /\ ctx = "none"
           /\ HasRecord(TabC) /\ activeTasks[TabC].task = task)
          ~> \/ ~HasRecord(TabC)
             \/ activeTasks[TabC].status \in terminalStatuses
             \/ activeTasks[TabC].task # task
             \/ /\ ctx # "none" /\ isExecuting /\ invs # <<>>
                /\ invs[Len(invs)].hasInit /\ invs[Len(invs)].task = task

\* the dispatch of onUpdated has just failed: the old context is gone and
\* the new one is not loaded yet
C27_Witness ==
    /\ last.op = "onUpdated" /\ last.sent # <<>> /\ ctx = "none"
    /\ b2c = <<>>
    /\ HasRecord(TabC) /\ activeTasks[TabC].status = "navigating"


(***************************************************************************)
(* Pause and stop of one PageAgent (SpecPause): the loops of SpecAgent,    *)
(* with the content script handling PAUSE_TASK, RESUME_TASK and STOP_TASK  *)
(* for its agent.  A loop that finds the agent paused waits in             *)
(* waitUntil(() => !this.paused) and goes on once the flag is cleared.     *)
(***************************************************************************)
\* the content script's handleMessage: PAUSE_TASK and RESUME_TASK set the
\* paused flag of the agent; STOP_TASK calls stopTask, which calls stop()
\* on a running agent: the current controller is aborted, running is false
AgentCommand ==
    /\ probe.fn = "agent"
    /\ probe.loops # <<>>
    /\ \E type \in {"PAUSE_TASK", "RESUME_TASK", "STOP_TASK"} :
          probe' = CASE type = "PAUSE_TASK" -> [probe EXCEPT !.paused = TRUE]
                     [] type = "RESUME_TASK" -> [probe EXCEPT !.paused = FALSE]
                     [] OTHER ->
                          IF probe.running
                          THEN [probe EXCEPT !.running = FALSE,
                                   !.abortedControllers = @ \cup {probe.controller}]
                          ELSE probe
    /\ UNCHANGED <<coordVars, contentVars>>

\* waitUntil returns in loop l: at the start of a step the LLM is invoked
\* with the current signal, in the macro tool the action starts
LoopResumes(l) ==
    /\ probe.loops[l].pc \in {"pausedStep", "pausedTool"}
    /\ ~probe.paused
    /\ probe' = [probe EXCEPT !.loops[l] =
                    IF probe.loops[l].pc = "pausedStep"
                    THEN [@ EXCEPT !.pc = "llm", !.signal = probe.controller]
                    ELSE [@ EXCEPT !.pc = "tool"]]
    /\ UNCHANGED <<coordVars, contentVars>>

SpecPause ==
    /\ InitAgent
    /\ [][\/ NextAgent
          \/ AgentCommand
          \/ \E l \in 1..MaxLoops : l <= Len(probe.loops) /\ LoopResumes(l)]_vars

\* C28: once stop has aborted the signal of a loop, the loop starts no
\* action, also when the agent was paused at the time of the stop.
C28_NoActionAfterStop ==
    [][\A l \in 1..MaxLoops :
          (/\ l <= Len(probe.loops)
           /\ probe.controller \in probe.abortedControllers
           /\ probe.loops[l].pc # "tool")
          => probe'.loops[l].pc # "tool"]_vars


C30_NoTextIsNoToolCall ==
    (/\ Normalized
     /\ probe.given.choices # <<>>
     /\ probe.given.choices[1].finish_reason \in ProceedReasons
     /\ LET message == probe.given.choices[1].message IN
        /\ \/ message.tool_calls = <<>>
           \/ ~Truthy(message.tool_calls[1].function.arguments)
        /\ \/ message.content.t # "string"
           \/ trim(message.content.s) = <<>>)
    => probe.first = InvokeError("NO_TOOL_CALL", "No tool call or content found in response")


(***************************************************************************)
(* The grace timer and later tasks (Spec).                                 *)
(***************************************************************************)
\* C35: the delayed deletion scheduled by TASK_COMPLETED or TASK_ERROR
\* removes only the record those messages marked: when the timer fires,
\* the record of the tab, if there is one, is completed or failed, never
\* the record of a task started since.
C35_TimerDeletesOnlyItsTask ==
    [][(GraceTimerFires(TabC) /\ HasRecord(TabC))
        => activeTasks[TabC].status \in {"completed", "failed"}]_vars


(***************************************************************************)
(* Messages for a tab without record (SpecCoord).                          *)
(***************************************************************************)
\* C37: a TASK_HEARTBEAT or TASK_PROGRESS handled for a tab that has no
\* stored record creates none and leaves the store as it is.
C37_NoRecordNoWrite ==
    [][\A tab \in Tabs :
          (/\ last'.op \in {"TASK_HEARTBEAT", "TASK_PROGRESS"}
           /\ last'.tab = tab
           /\ ~HasRecord(tab))
          => activeTasks' = activeTasks]_vars

\* a heartbeat was handled for a tab without record while the other tab
\* has one and every record the model allows has been created
C37_Witness ==
    /\ last.op = "TASK_HEARTBEAT" /\ ~last.had
    /\ ~HasRecord(last.tab)
    /\ activeTasks # <<>>
    /\ uuidCtr = MaxTasks


(***************************************************************************)
(* The isExecuting guard (SpecCtx).                                        *)
(***************************************************************************)
\* C38: isExecuting is true whenever an invocation of executeTask is in its
\* agent loop (a stopped loop that has not returned yet included), and so
\* at most one invocation is in its loop at any time.
C38_GuardCoversLoops ==
    LET loops == {i \in 1..Len(invs) : invs[i].pc \in {"llm", "tool", "post"}}
    IN  /\ loops # {} => isExecuting
        /\ Cardinality(loops) <= 1


(***************************************************************************)
(* C39: for every task, resumed or not, the history never holds more than  *)
(* MAX_STEPS steps, and the step number announced to the model in          *)
(* <step_info> (history.length + 1, assembled while the loop prepares its  *)
(* LLM call) never exceeds MAX_STEPS.                                      *)
(***************************************************************************)
C39_StepsWithinLimit ==
    \A i \in 1..Len(invs) :
        /\ Len(invs[i].history) <= MAX_STEPS
        /\ invs[i].pc = "llm" => Len(invs[i].history) + 1 <= MAX_STEPS


(***************************************************************************)
(* C34: a DEBUGGER_CLICK is answered with success: true only when its      *)
(* press and release were injected: a click whose attach or whose          *)
(* injected command failed in the service worker is never reported to the  *)
(* executor as a success.                                                  *)
(***************************************************************************)
C34_FailedClickReported ==
    probe.fn = "debugger" =>
        \A i \in 1..2 :
            (/\ probe.acts[i].kind = "DEBUGGER_CLICK"
             /\ probe.acts[i].response # <<>>
             /\ probe.acts[i].response[1].success)
            => (~probe.acts[i].failed /\ probe.acts[i].left = 0)



(***************************************************************************)
(* Provider corrections of the request body (SpecPatch).  A model          *)
(* identifier is the sequence of its characters, and includes looks for a  *)
(* contiguous run of characters.  A field of the body is                   *)
(* a tuple, <<>> when the field is absent (JSON.stringify leaves an        *)
(* undefined field out): tool_choice is <<"required">>, <<"function", n>>, *)
(* <<"any">> or <<"tool", n>>; temperature is in tenths.                   *)
(***************************************************************************)
\* lower case, the segment after the first '/', then '_' and '.' removed
normalizeModelName(modelName) ==
    LET upper == <<"A", "B", "C", "D", "E", "F", "G", "H", "I", "J", "K", "L", "M", "N", "O", "P", "Q", "R", "S", "T", "U", "V", "W", "X", "Y", "Z">>
        lower == <<"a", "b", "c", "d", "e", "f", "g", "h", "i", "j", "k", "l", "m", "n", "o", "p", "q", "r", "s", "t", "u", "v", "w", "x", "y", "z">>
        \* modelName.toLowerCase(), character by character
        lowered ==
            [k \in 1..Len(modelName) |->
                IF \E u \in 1..Len(upper) : upper[u] = modelName[k]
                THEN lower[CHOOSE u \in 1..Len(upper) : upper[u] = modelName[k]]
                ELSE modelName[k]]
        \* s.split('/')[1]
        second(s) ==
            LET slashes == {k \in 1..Len(s) : s[k] = "/"}
                first == CHOOSE k \in slashes : \A j \in slashes : k <= j
                later == {k \in slashes : k > first}
                next == IF later = {} THEN Len(s) + 1
                        ELSE CHOOSE k \in later : \A j \in later : k <= j
            IN  SubSeq(s, first + 1, next - 1)
        stripped == IF includes(lowered, <<"/">>) THEN second(lowered) ELSE lowered
    IN  SelectSeq(SelectSeq(stripped, LAMBDA c : c # "_"), LAMBDA c : c # ".")

\* the body after the corrections for its model: the rules in their order,
\* the claude, grok, reasoning and gpt rules returning at once
modelPatch(body) ==
    LET model == body.model
        modelName == normalizeModelName(model)
        startsWith(p) == Len(p) <= Len(modelName) /\ SubSeq(modelName, 1, Len(p)) = p
        has(p) == includes(modelName, p)
        max(a, b) == IF a >= b THEN a ELSE b
        qwen == IF startsWith(<<"q", "w", "e", "n">>)
                THEN [body EXCEPT !.temperature =
                         <<max(IF @ = <<>> THEN 0 ELSE @[1], 10)>>]
                ELSE body
    IN  IF startsWith(<<"c", "l", "a", "u", "d", "e">>)
        THEN [qwen EXCEPT !.thinking = <<"disabled">>,
                          !.tool_choice =
                              IF @ = <<"required">> THEN <<"any">>
                              ELSE IF @ # <<>> /\ @[1] = "function" THEN <<"tool", @[2]>>
                              ELSE @]
        ELSE IF has(<<"g", "r", "o", "k">>)
        THEN [qwen EXCEPT !.tool_choice = <<>>,
                          !.thinking = <<"disabled", "minimal">>,
                          !.reasoning = <<"not enabled", "low">>]
        ELSE IF \/ has(<<"r", "e", "a", "s", "o", "n", "e", "r">>) \/ has(<<"r", "1">>) \/ has(<<"o", "1", "-">>) \/ has(<<"o", "3", "-">>)
                \/ (startsWith(<<"o", "1">>) /\ ~has(<<"m", "i", "n", "i">>))
        THEN [qwen EXCEPT !.tools = <<>>, !.tool_choice = <<>>]
        ELSE IF startsWith(<<"g", "p", "t">>)
        THEN [qwen EXCEPT !.verbosity = <<"low">>,
                          !.reasoning_effort =
                              IF startsWith(<<"g", "p", "t", "5", "2">>) THEN <<"none">>
                              ELSE IF startsWith(<<"g", "p", "t", "5", "1">>) THEN <<"none">>
                              ELSE IF startsWith(<<"g", "p", "t", "5">>) THEN <<"low">>
                              ELSE @]
        ELSE LET gemini == IF startsWith(<<"g", "e", "m", "i", "n", "i">>)
                           THEN [qwen EXCEPT !.reasoning_effort = <<"minimal">>]
                           ELSE qwen
             IN  IF \/ includes(model, <<"/">>)
                    \/ has(<<"d", "e", "e", "p", "s", "e", "e", "k">>) \/ has(<<"l", "l", "a", "m", "a">>) \/ has(<<"m", "i", "s", "t", "r", "a", "l">>) \/ has(<<"m", "i", "x", "t", "r", "a", "l">>)
                 THEN IF \/ includes(model, <<":", "f", "r", "e", "e">>)
                         \/ includes(model, <<"x", "i", "a", "o", "m", "i", "/">>)
                         \/ includes(model, <<"h", "f", "/">>)
                      THEN [gemini EXCEPT !.tool_choice = <<>>]
                      ELSE [gemini EXCEPT !.tool_choice = <<"required">>]
                 ELSE gemini

\* the body that OpenAIClient.invoke builds: the configured model (an
\* optional provider prefix, a model name, an optional suffix), the
\* configured temperature, the tools and the tool choice (the named tool or
\* 'required')
InitPatch ==
    /\ InitSystem
    /\ \E prefix \in {<<>>,
                     <<"o", "p", "e", "n", "a", "i", "/">>,
                     <<"x", "i", "a", "o", "m", "i", "/">>,
                     <<"h", "f", "/">>},
          name \in {<<"g", "p", "t", "-", "5", ".", "2">>,
                   <<"g", "p", "t", "-", "5", "_", "2">>,
                   <<"G", "P", "T", "-", "5", "2">>,
                   <<"g", "p", "t", "5", "2">>,
                   <<"g", "p", "t", "-", "4", "o">>,
                   <<"c", "l", "a", "u", "d", "e", "-", "3">>,
                   <<"q", "w", "e", "n", "3">>,
                   <<"g", "e", "m", "i", "n", "i", "-", "2">>,
                   <<"g", "r", "o", "k", "-", "2">>,
                   <<"d", "e", "e", "p", "s", "e", "e", "k", "-", "r", "1">>,
                   <<"o", "1", "-", "m", "i", "n", "i">>,
                   <<"m", "i", "m", "o">>,
                   <<"l", "l", "a", "m", "a", "-", "3">>},
          suffix \in {<<>>,
                     <<"-", "c", "h", "a", "t">>,
                     <<":", "f", "r", "e", "e">>},
          temperature \in {<<>>, <<0>>, <<7>>, <<20>>},
          tool_choice \in {<<"required">>, <<"function", "AgentOutput">>} :
          probe = [fn |-> "patch", sent |-> FALSE,
                   body |-> [model |-> prefix \o name \o suffix,
                             temperature |-> temperature,
                             tools |-> <<"AgentOutput">>,
                             tool_choice |-> tool_choice,
                             thinking |-> <<>>, reasoning |-> <<>>,
                             verbosity |-> <<>>, reasoning_effort |-> <<>>]]
\* OpenAIClient.invoke sends what modelPatch returns for its body
SpecPatch ==
    /\ InitPatch
    /\ [][/\ probe.fn = "patch"
          /\ ~probe.sent
          /\ probe' = [probe EXCEPT !.sent = TRUE, !.body = modelPatch(@)]
          /\ UNCHANGED <<coordVars, contentVars>>]_vars

\* C31: an identifier that contains ':free', 'xiaomi/' or 'hf/' is sent
\* without tool_choice, whichever other provider rules match it.
C31_NoToolChoiceForUnsupported ==
    (probe.fn = "patch" /\ probe.sent) =>
        ((\/ includes(probe.body.model, <<":", "f", "r", "e", "e">>)
          \/ includes(probe.body.model, <<"x", "i", "a", "o", "m", "i", "/">>)
          \/ includes(probe.body.model, <<"h", "f", "/">>))
         => probe.body.tool_choice = <<>>)


\* C32: the identifiers 'gpt-5.2', 'gpt-5_2', 'GPT-52' and
\* 'openai/gpt-5.2-chat', which differ from gpt52 only in letter case, in
\* a provider prefix or in separators, normalize to a name that is treated
\* as gpt52 (it starts with gpt52) and are sent with the reasoning setting
\* that gpt52 is sent with.
C32_SameModelSameCorrections ==
    (/\ probe.fn = "patch"
     /\ probe.sent
     /\ probe.body.model \in {<<"g", "p", "t", "-", "5", ".", "2">>,
                              <<"g", "p", "t", "-", "5", "_", "2">>,
                              <<"G", "P", "T", "-", "5", "2">>,
                              <<"o", "p", "e", "n", "a", "i", "/", "g", "p", "t",
                                "-", "5", ".", "2", "-", "c", "h", "a", "t">>})
    => /\ SubSeq(normalizeModelName(probe.body.model), 1, 5) = <<"g", "p", "t", "5", "2">>
       /\ probe.body.reasoning_effort # <<>>
       /\ probe.body.reasoning_effort =
             modelPatch([probe.body EXCEPT !.model = <<"g", "p", "t", "5", "2">>]).reasoning_effort


(***************************************************************************)
(* Scrolling (SpecScroll).  chain is the element the scroll starts from    *)
(* (the indexed element, or document.activeElement for a page-level        *)
(* scroll) followed by its ancestors up to document.body; an element has   *)
(* its geometry on both axes, x (overflowX, scrollWidth, clientWidth,      *)
(* scrollLeft) and y (overflowY, scrollHeight, clientHeight, scrollTop).   *)
(* Lengths are in thirds of a pixel, so that scroll_amount / 3 is exact:   *)
(* a scroll_amount of a pixels is a thirds, and the threshold of 0.5       *)
(* pixels lies between 1 and 2 thirds.                                     *)
(***************************************************************************)
MaxDepth == 2           \* elements of the chain
MaxAmount == 2          \* pixels of scroll_amount

\* scrollVertically: with an element, the nearest container of the chain
\* that is scrollable on y and actually moves by the clamped third of dy;
\* without one, the first big container of the chain, or the page, is
\* asked to scroll by dy.  The parameter down is not read.
scrollVertically(down, scroll_amount, element, chain, inner) ==
    LET dy == scroll_amount
        hasScrollableY(k) == chain[k].y.overflow \in {"auto", "scroll", "overlay"}
        canScrollVertically(k) == chain[k].y.scrollSize > chain[k].y.clientSize
        beforeScroll(k) == chain[k].y.scrollPos
        maxScroll(k) == chain[k].y.scrollSize - chain[k].y.clientSize
        min(a, b) == IF a <= b THEN a ELSE b
        max(a, b) == IF a >= b THEN a ELSE b
        scrollAmount(k) == IF dy > 0 THEN min(dy, maxScroll(k) - beforeScroll(k))
                           ELSE max(dy, -beforeScroll(k))
        abs(a) == IF a >= 0 THEN a ELSE -a
        moved == {k \in 1..Len(chain) :
                     /\ k - 1 < 10
                     /\ hasScrollableY(k) /\ canScrollVertically(k)
                     /\ abs(scrollAmount(k)) >= 2}
        bigEnough(k) == 2 * chain[k].y.clientSize >= inner.y
        canScroll(k) == hasScrollableY(k) /\ canScrollVertically(k) /\ bigEnough(k)
        found == {k \in 1..Len(chain) : canScroll(k)}
    IN  IF element
        THEN IF moved # {}
             THEN LET k == CHOOSE j \in moved : \A i \in moved : j <= i
                  IN  [mode |-> "container", target |-> k, delta |-> scrollAmount(k)]
             ELSE [mode |-> "none", target |-> 0, delta |-> 0]
        ELSE IF found # {} /\ (CHOOSE j \in found : \A i \in found : j <= i) < Len(chain)
             THEN [mode |-> "scrollBy",
                   target |-> CHOOSE j \in found : \A i \in found : j <= i,
                   delta |-> 3 * dy]
             ELSE [mode |-> "page", target |-> 0, delta |-> 3 * dy]

\* scrollHorizontally: the same walk on x, with dx = right ? scroll_amount
\* : -scroll_amount
scrollHorizontally(right, scroll_amount, element, chain, inner) ==
    LET dx == IF right THEN scroll_amount ELSE -scroll_amount
        hasScrollableX(k) == chain[k].x.overflow \in {"auto", "scroll", "overlay"}
        canScrollHorizontally(k) == chain[k].x.scrollSize > chain[k].x.clientSize
        beforeScroll(k) == chain[k].x.scrollPos
        maxScroll(k) == chain[k].x.scrollSize - chain[k].x.clientSize
        min(a, b) == IF a <= b THEN a ELSE b
        max(a, b) == IF a >= b THEN a ELSE b
        scrollAmount(k) == IF dx > 0 THEN min(dx, maxScroll(k) - beforeScroll(k))
                           ELSE max(dx, -beforeScroll(k))
        abs(a) == IF a >= 0 THEN a ELSE -a
        moved == {k \in 1..Len(chain) :
                     /\ k - 1 < 10
                     /\ hasScrollableX(k) /\ canScrollHorizontally(k)
                     /\ abs(scrollAmount(k)) >= 2}
        bigEnough(k) == 2 * chain[k].x.clientSize >= inner.x
        canScroll(k) == hasScrollableX(k) /\ canScrollHorizontally(k) /\ bigEnough(k)
        found == {k \in 1..Len(chain) : canScroll(k)}
    IN  IF element
        THEN IF moved # {}
             THEN LET k == CHOOSE j \in moved : \A i \in moved : j <= i
                  IN  [mode |-> "container", target |-> k, delta |-> scrollAmount(k)]
             ELSE [mode |-> "none", target |-> 0, delta |-> 0]
        ELSE IF found # {} /\ (CHOOSE j \in found : \A i \in found : j <= i) < Len(chain)
             THEN [mode |-> "scrollBy",
                   target |-> CHOOSE j \in found : \A i \in found : j <= i,
                   delta |-> 3 * dx]
             ELSE [mode |-> "page", target |-> 0, delta |-> 3 * dx]

\* a page whose elements do not scroll on x and have any geometry on y is
\* scrolled vertically; the page with the two axes exchanged is scrolled
\* horizontally with the same flag and amount
InitScroll ==
    /\ InitSystem
    /\ \E n \in 1..MaxDepth, flag \in BOOLEAN, amount \in (-MaxAmount)..MaxAmount,
          element \in BOOLEAN, innerHeight \in {4, 6} :
          \E geometry \in [1..n -> {g \in [overflow : {"visible", "auto"},
                                           scrollSize : {2, 5}, clientSize : {2},
                                           scrollPos : {0, 1, 3}] :
                                       g.scrollPos <= g.scrollSize - g.clientSize}] :
              probe = [fn |-> "scroll", flag |-> flag, scroll_amount |-> amount,
                       element |-> element,
                       inner |-> [x |-> 1, y |-> innerHeight],
                       chain |-> [k \in 1..n |->
                                     [x |-> [overflow |-> "visible", scrollSize |-> 1,
                                             clientSize |-> 1, scrollPos |-> 0],
                                      y |-> geometry[k]]],
                       vertical |-> <<>>, horizontal |-> <<>>]

\* each function is called once on the page
SpecScroll ==
    /\ InitScroll
    /\ [][\/ /\ probe.fn = "scroll"
             /\ probe.vertical = <<>>
             /\ probe' = [probe EXCEPT !.vertical =
                             <<scrollVertically(probe.flag, probe.scroll_amount,
                                                probe.element, probe.chain,
                                                probe.inner)>>]
             /\ UNCHANGED <<coordVars, contentVars>>
          \/ /\ probe.fn = "scroll"
             /\ probe.horizontal = <<>>
             /\ probe' = [probe EXCEPT !.horizontal =
                             <<scrollHorizontally(probe.flag, probe.scroll_amount,
                                   probe.element,
                                   [k \in 1..Len(probe.chain) |->
                                       [x |-> probe.chain[k].y, y |-> probe.chain[k].x]],
                                   [x |-> probe.inner.y, y |-> probe.inner.x])>>]
             /\ UNCHANGED <<coordVars, contentVars>>]_vars

\* C33: for the same direction flag, the same amount and the geometry with
\* its axes exchanged, scrollHorizontally picks the container that
\* scrollVertically picks and applies the same signed delta.
C33_ScrollAxesSymmetric ==
    (probe.fn = "scroll" /\ probe.vertical # <<>> /\ probe.horizontal # <<>>)
        => probe.horizontal = probe.vertical


(***************************************************************************)
(* The storage helper, call by call (SpecStore).  chrome.storage.local     *)
(* answers a get or a set some time after it was asked, so the handlers    *)
(* of two messages interleave at every await.  stored is the activeTasks   *)
(* map in chrome.storage.local; a handler holds the record it read with    *)
(* getTask (state) and the map it read in setTask or removeTask (tasks).   *)
(***************************************************************************)
\* no record is stored and no message is being handled
InitStore ==
    /\ InitSystem
    /\ probe = [fn |-> "store", stored |-> <<>>, calls |-> 0,
                handlers |-> [t \in Tabs |-> [type |-> "", pc |-> "idle",
                                              state |-> <<>>, tasks |-> <<>>]]]

\* the service worker receives TASK_STARTED, TASK_HEARTBEAT or TASK_STOPPED
\* of a tab whose previous message has been handled, and the storage
\* answers the handlers in any order: it answers the call that the
\* handler of a tab awaits, which is its
\* getTask (TASK_STARTED stores a new record or the existing one as
\* executing, TASK_HEARTBEAT merges its payload into an existing record and
\* returns without one), then the getTasks of setTask or removeTask, then
\* the set of the whole map
SpecStore ==
    /\ InitStore
    /\ [][\/ \E tab \in Tabs,
                type \in {"TASK_STARTED", "TASK_HEARTBEAT", "TASK_STOPPED"} :
                /\ probe.fn = "store"
                /\ probe.calls < MaxCalls
                /\ probe.handlers[tab].pc \in {"idle", "done"}
                /\ probe' = [probe EXCEPT
                       !.calls = @ + 1,
                       !.handlers[tab] = [type |-> type,
                                          pc |-> IF type = "TASK_STOPPED"
                                                 THEN "getTasks" ELSE "getTask",
                                          state |-> <<>>, tasks |-> <<>>]]
                /\ UNCHANGED <<coordVars, contentVars>>
          \/ \E tab \in Tabs :
               /\ probe.fn = "store"
               /\ UNCHANGED <<coordVars, contentVars>>
               /\ LET h == probe.handlers[tab]
                      existing == IF tab \in DOMAIN probe.stored THEN <<probe.stored[tab]>> ELSE <<>>
                  IN
                   CASE h.pc = "getTask" ->
                           IF h.type = "TASK_STARTED"
                           THEN probe' = [probe EXCEPT !.handlers[tab] = [h EXCEPT
                                   !.pc = "getTasks",
                                   !.state = IF existing = <<>> \/ existing[1].task # "A"
                                             THEN <<[task |-> "A", history |-> <<>>,
                                                     status |-> "starting"]>>
                                             ELSE <<[existing[1] EXCEPT !.status = "executing"]>>]]
                           ELSE IF existing # <<>>
                           THEN probe' = [probe EXCEPT !.handlers[tab] = [h EXCEPT
                                   !.pc = "getTasks",
                                   !.state = <<[existing[1] EXCEPT !.history = <<"click">>,
                                                                   !.status = "executing"]>>]]
                           ELSE probe' = [probe EXCEPT !.handlers[tab] = [h EXCEPT !.pc = "done"]]
                     [] h.pc = "getTasks" ->
                           probe' = [probe EXCEPT !.handlers[tab] = [h EXCEPT
                                   !.pc = "set", !.tasks = probe.stored]]
                     [] h.pc = "set" ->
                           probe' = [probe EXCEPT
                                   !.handlers[tab] = [h EXCEPT !.pc = "done", !.tasks = <<>>,
                                                               !.state = <<>>],
                                   !.stored = IF h.state # <<>>
                                              THEN [t \in (DOMAIN h.tasks) \cup {tab} |->
                                                       IF t = tab THEN h.state[1] ELSE h.tasks[t]]
                                              ELSE [t \in (DOMAIN h.tasks) \ {tab} |-> h.tasks[t]]]
                     [] OTHER -> FALSE]_vars

\* C36: when the handler of a message of one tab writes the map, the
\* stored record of every other tab is what it was: not lost, not reverted
\* to an older value, not brought back after its removal.
C36_TabsIndependent ==
    [][\A tab \in Tabs :
          (/\ probe.fn = "store"
           /\ probe.handlers[tab].pc = "set"
           /\ probe'.handlers[tab].pc = "done")
          => \A other \in Tabs \ {tab} :
                /\ (other \in DOMAIN probe'.stored) <=> (other \in DOMAIN probe.stored)
                /\ other \in DOMAIN probe.stored
                   => probe'.stored[other] = probe.stored[other]]_vars

====
